---- MODULE Spec2Model ----
(***************************************************************************)
(* The write pipeline of the task dashboard: doPost classifies a command,  *)
(* queues completion marks in the RequestQueue sheet or applies the        *)
(* command at once (_processSingleRequest); processQueue, fired by a       *)
(* time-driven trigger, drains the queue in batches under the script lock. *)
(*                                                                         *)
(* JavaScript strings are sequences of atoms: an atom is a run of text     *)
(* without leading or trailing blanks, " " is one blank.  trim and         *)
(* toLowerCase work on that sequence.  A value that may be missing         *)
(* (undefined, null) is a sequence of length 0 or 1.                       *)
(***************************************************************************)
EXTENDS Integers, Sequences, FiniteSets, TLC

\* ------------------------------------------------------------------ bounds

\* The script sets BATCH_SIZE to 50 (part_000:68).  The model runs it scaled
\* down, so that queues longer than one batch are reached.
BATCH_SIZE == 2

\* doPost calls in one behaviour.
MaxPosts == 3

\* Storage faults (a Sheets call that throws) in one behaviour.
MaxFaults == 1

\* Commands queued before the first firing, in the behaviours of SpecDrain.
MaxQueued == 5

\* Firings of processQueue in one behaviour of SpecDrain.
MaxCycles == 4

\* User actions and timer firings in a behaviour of a browser.
MaxClicks == 3

\* Rows below the header in the tables findRow is applied to.
MaxRows == 3

\* ------------------------------------------------------------- JS strings

Str(a) == <<a>>

Absent == <<>>

Some(x) == <<x>>

IsPresent(o) == Len(o) > 0

\* The letters of an atom in lower case.
lowerAtom(a) ==
    CASE a = "Task ID" -> "task id"
      [] a = "TASK ID" -> "task id"
      [] a = "TASK" -> "task"
      [] a = "Task" -> "task"
      [] a = "Attachment URL" -> "attachment url"
      [] a = "PC" -> "pc"
      [] a = "Delegate Email" -> "delegate email"
      [] a = "T1" -> "t1"
      [] a = "T2" -> "t2"
      [] a = "M1" -> "m1"
      [] a = "Planned" -> "planned"
      [] a = "M2" -> "m2"
      [] a = "M9" -> "m9"
      [] a = "T9" -> "t9"
      [] OTHER -> a

toLowerCase(s) == [i \in 1..Len(s) |-> lowerAtom(s[i])]

SetMin(S) == CHOOSE x \in S : \A y \in S : x <= y

SetMax(S) == CHOOSE x \in S : \A y \in S : x >= y

trim(s) ==
    LET solid == {i \in 1..Len(s) : s[i] # " "}
    IN  IF solid = {} THEN <<>> ELSE SubSeq(s, SetMin(solid), SetMax(solid))

\* String(x).trim().toLowerCase()
normalize(s) == toLowerCase(trim(s))

\* JavaScript truthiness of a cell value: '' and 0 are falsy.
ZERO == Str("#0")

Falsy(v) == v = <<>> \/ v = ZERO

\* String(v)
jsString(v) == IF v = ZERO THEN Str("0") ELSE v

\* normalizedNewData[h] || ""
OrEmpty(o) == IF IsPresent(o) /\ ~Falsy(o[1]) THEN o[1] ELSE <<>>

\* ------------------------------------------------------------- JS objects

\* An object is the sequence of its <<key, value>> pairs in insertion order.
\* for (var key in obj) normalized[String(key).trim().toLowerCase()] = obj[key]
\* leaves, for a normalized key, the value of the last pair that has it.
normalizeKeys(obj) == [i \in 1..Len(obj) |-> <<normalize(obj[i][1]), obj[i][2]>>]

\* normalized[h]: the value or nothing (undefined).
Lookup(nobj, h) ==
    LET hits == {i \in 1..Len(nobj) : nobj[i][1] = h}
    IN  IF hits = {} THEN Absent ELSE Some(nobj[SetMax(hits)][2])

hasOwnProperty(nobj, h) == \E i \in 1..Len(nobj) : nobj[i][1] = h

\* obj[key] = value
SetKey(obj, key, value) ==
    IF \E i \in 1..Len(obj) : obj[i][1] = key
    THEN [i \in 1..Len(obj) |-> IF obj[i][1] = key THEN <<key, value>> ELSE obj[i]]
    ELSE Append(obj, <<key, value>>)

\* ----------------------------------------------------------- configuration

QUEUE_SHEET_NAME == "RequestQueue"

TASK_ATTACHMENTS_FOLDER_NAME == "Task Attachments"

DoneTaskStatus == Str("Done Task Status")

NoConfig == [known |-> FALSE, matchColumn |-> <<>>, matchColumnIndex |-> 0, readOnlyColumns |-> <<>>]

SHEET_CONFIG(sheetName) ==
    CASE sheetName = Str("Task") ->
           [known |-> TRUE, matchColumn |-> Str("Task"), matchColumnIndex |-> 0,
            readOnlyColumns |-> <<>>]
      [] sheetName = Str("Master Data") ->
           [known |-> TRUE, matchColumn |-> Str("Task ID"), matchColumnIndex |-> 1,
            readOnlyColumns |-> <<Str("pc")>>]
      [] sheetName = Str("Done Task Status") ->
           [known |-> TRUE, matchColumn |-> Str("Task ID"), matchColumnIndex |-> 0,
            readOnlyColumns |-> <<>>]
      [] sheetName = Str("Working Task Form") ->
           [known |-> TRUE, matchColumn |-> Str("Task ID"), matchColumnIndex |-> 8,
            readOnlyColumns |-> <<Str("delegate email")>>]
      [] OTHER -> NoConfig

\* ------------------------------------------------------------------ sheets

\* A sheet is the sequence of its rows, the header row first; a row is the
\* sequence of its cells.
IsBlankRow(row) == \A i \in 1..Len(row) : row[i] = <<>>

\* sheet.getLastRow(): the last row that has content.
getLastRow(data) ==
    LET full == {i \in 1..Len(data) : ~IsBlankRow(data[i])}
    IN  IF full = {} THEN 0 ELSE SetMax(full)

\* sheet.getLastColumn(), for sheets whose content starts with the header row.
getLastColumn(data) == IF Len(data) = 0 THEN 0 ELSE Len(data[1])

\* sheet.getRange(getLastRow() + 1, 1, rows.length, n).setValues(rows) and
\* sheet.appendRow(row): the rows go right below the last row with content.
appendRows(data, rows) ==
    LET kept == SubSeq(data, 1, getLastRow(data))
        all == kept \o rows
    IN  SubSeq(all, 1, getLastRow(all))

\* Mutant of deleteRow: the rows below go as well.
deleteRowAndBelow(data, r) == SubSeq(data, 1, r - 1)

\* sheet.deleteRow(r): the rows below move up.
deleteRow(data, r) == SubSeq(data, 1, r - 1) \o SubSeq(data, r + 1, Len(data))

\* sheet.getRange(r, c).setValue(v)
setValue(data, r, c, v) == [data EXCEPT ![r] = [@ EXCEPT ![c] = v]]

indexOf(seq, x) ==
    LET hits == {i \in 1..Len(seq) : seq[i] = x}
    IN  IF hits = {} THEN -1 ELSE SetMin(hits) - 1

\* Mutant of findRow: when nothing matches, the last row is given.
findRowOrLast(data, config, matchValue) ==
    LET col == IF config.matchColumnIndex # 0 THEN config.matchColumnIndex ELSE 1
        normalizedMatchValue == normalize(jsString(matchValue))
        hits == {i \in 2..Len(data) :
                    /\ Len(data[i]) >= col
                    /\ normalize(jsString(data[i][col])) # <<>>
                    /\ normalize(jsString(data[i][col])) = normalizedMatchValue}
    IN  IF hits = {} THEN [threw |-> FALSE, row |-> Len(data)]
        ELSE [threw |-> FALSE, row |-> SetMax(hits)]

\* findRow: [threw, row]; row is the 1-indexed row number or -1.
findRow(data, config, matchValue) ==
    LET byIndex == config.matchColumnIndex # 0
        headers == IF Len(data) = 0 THEN <<>> ELSE data[1]
        normalizedHeaders == [i \in 1..Len(headers) |-> normalize(headers[i])]
        matchColumnIndex ==
            IF byIndex THEN config.matchColumnIndex - 1
            ELSE indexOf(normalizedHeaders, normalize(config.matchColumn))
        bad == IF byIndex
               THEN matchColumnIndex < 0 \/ matchColumnIndex >= getLastColumn(data)
               ELSE Len(data) = 0 \/ matchColumnIndex = -1
        normalizedMatchValue == normalize(jsString(matchValue))
        hits == {i \in 2..Len(data) :
                    /\ Len(data[i]) > matchColumnIndex
                    /\ normalize(jsString(data[i][matchColumnIndex + 1])) # <<>>
                    /\ normalize(jsString(data[i][matchColumnIndex + 1]))
                         = normalizedMatchValue}
    IN  IF bad THEN [threw |-> TRUE, row |-> -1]
        ELSE IF hits = {} THEN [threw |-> FALSE, row |-> -1]
        ELSE [threw |-> FALSE, row |-> SetMax(hits)]

\* ---------------------------------------------------------------- commands

\* A request is the object JSON.parse gives for a request body.
NoAttachment == Absent

Request(sheetName, action) ==
    [sheetName |-> sheetName, action |-> action,
     newData |-> Absent, newDatas |-> Absent,
     historyRecord |-> Absent, historyRecords |-> Absent,
     matchValue |-> <<>>, updatedData |-> Absent, attachment |-> NoAttachment]

\* The text of a request body: text that JSON.parse accepts, with the object
\* it stands for, or text it rejects.
Body(request) == [wellFormed |-> TRUE, value |-> request]

MalformedBody == [wellFormed |-> FALSE, value |-> Request(<<>>, "")]

\* JSON.parse(contents)
JSON_parse(contents) ==
    IF contents.wellFormed THEN [threw |-> FALSE, value |-> contents.value]
    ELSE [threw |-> TRUE, value |-> contents.value]

HistoryRecord(task, change) ==
    [systemType |-> Str("Dashboard"), task |-> task, changedBy |-> <<>>, change |-> change]

NewDate == Str("<now>")

NA == Str("N/A")

OrNA(v) == IF Falsy(v) THEN NA ELSE v

\* [ new Date(), rec.systemType || 'N/A', rec.task || 'N/A', ... ]
historyRow(rec) ==
    <<NewDate, OrNA(rec.systemType), OrNA(rec.task), OrNA(rec.changedBy), OrNA(rec.change)>>

\* Utilities.base64Decode, newBlob, getOrCreateFolder, createFile, setSharing,
\* getUrl: the URL of the new file, or an exception (content that is not
\* base64).
uploadAttachment(attachment) ==
    IF attachment.validBase64
    THEN [threw |-> FALSE, url |-> Str("https://drive/file")]
    ELSE [threw |-> TRUE, url |-> <<>>]

\* Mutant of buildRow: the keys are looked up as they were sent.
buildRowExactKeys(normalizedHeaders, obj) ==
    [i \in 1..Len(normalizedHeaders) |-> OrEmpty(Lookup(obj, normalizedHeaders[i]))]

\* headers.map(h => normalized[h] || "")
buildRow(normalizedHeaders, obj) ==
    LET nobj == normalizeKeys(obj)
    IN  [i \in 1..Len(normalizedHeaders) |-> OrEmpty(Lookup(nobj, normalizedHeaders[i]))]

normalizeHeaders(headers) == [i \in 1..Len(headers) |-> normalize(headers[i])]

\* ------------------------------------------------- processQueue: preparing

\* The safety check of the loop: a queue row of another kind is passed over.
isExpectedInQueue(request) ==
    ~(request.sheetName # DoneTaskStatus
        \/ (request.action # "create" /\ request.action # "batchCreate"))

\* The loop over newDatas of one queued request (for i = from .. length-1):
\* the rows pushed to doneTaskRows, and whether the attachment upload threw.
\* A missing element is passed over before its attachment is looked at.
RECURSIVE pushRows(_, _, _, _)
pushRows(request, newDatas, from, normalizedDoneTaskHeaders) ==
    IF from > Len(newDatas) THEN [threw |-> FALSE, rows |-> <<>>]
    ELSE IF ~IsPresent(newDatas[from])
    THEN pushRows(request, newDatas, from + 1, normalizedDoneTaskHeaders)
    ELSE
      LET upload == IsPresent(request.attachment) /\ request.action = "create"
          file == IF upload THEN uploadAttachment(request.attachment[1])
                  ELSE [threw |-> FALSE, url |-> <<>>]
          currentData == IF upload
                         THEN SetKey(newDatas[from][1], Str("Attachment URL"), file.url)
                         ELSE newDatas[from][1]
          rest == pushRows(request, newDatas, from + 1, normalizedDoneTaskHeaders)
      IN  IF file.threw THEN [threw |-> TRUE, rows |-> <<>>]
          ELSE [threw |-> rest.threw,
                rows |-> <<buildRow(normalizedDoneTaskHeaders, currentData)>> \o rest.rows]

\* The loop over historyRecords of one queued request.
RECURSIVE pushHistory(_, _)
pushHistory(historyRecords, from) ==
    IF from > Len(historyRecords) THEN <<>>
    ELSE IF ~IsPresent(historyRecords[from]) THEN pushHistory(historyRecords, from + 1)
    ELSE <<historyRow(historyRecords[from][1])>> \o pushHistory(historyRecords, from + 1)

\* One pass of data.forEach: what the queue row adds to doneTaskRows and to
\* historyRows, and how the pass ended: "applied", "skipped" (the safety
\* check) or "threw" (caught and logged).  Every queue row holds text.
prepareEntry(contents, normalizedDoneTaskHeaders) ==
    LET parsed == JSON_parse(contents)
        request == parsed.value
        newDatas == IF request.action = "batchCreate"
                    THEN (IF IsPresent(request.newDatas) THEN request.newDatas[1] ELSE <<>>)
                    ELSE <<request.newData>>
        historyRecords ==
            IF request.action = "batchCreate"
            THEN (IF IsPresent(request.historyRecords) THEN request.historyRecords[1] ELSE <<>>)
            ELSE <<request.historyRecord>>
        pushed == pushRows(request, newDatas, 1, normalizedDoneTaskHeaders)
    IN  IF parsed.threw THEN [end |-> "threw", rows |-> <<>>, history |-> <<>>]
        ELSE IF ~isExpectedInQueue(request) THEN [end |-> "skipped", rows |-> <<>>, history |-> <<>>]
        ELSE IF pushed.threw THEN [end |-> "threw", rows |-> pushed.rows, history |-> <<>>]
        ELSE [end |-> "applied", rows |-> pushed.rows,
              history |-> pushHistory(historyRecords, 1)]

\* Mutant of prepareBatch: the loop ends at the first queue row that is not
\* applied, as if the try block were around the loop.
RECURSIVE prepareBatchStopsAtError(_, _)
prepareBatchStopsAtError(data, normalizedDoneTaskHeaders) ==
    IF data = <<>> THEN [doneTaskRows |-> <<>>, historyRows |-> <<>>]
    ELSE
      LET one == prepareEntry(Head(data), normalizedDoneTaskHeaders)
          rest == prepareBatchStopsAtError(Tail(data), normalizedDoneTaskHeaders)
      IN  IF one.end # "applied" THEN [doneTaskRows |-> <<>>, historyRows |-> <<>>]
          ELSE [doneTaskRows |-> one.rows \o rest.doneTaskRows,
                historyRows |-> one.history \o rest.historyRows]

\* data.forEach over the batch: doneTaskRows and historyRows after it.
RECURSIVE prepareBatch(_, _)
prepareBatch(data, normalizedDoneTaskHeaders) ==
    IF data = <<>> THEN [doneTaskRows |-> <<>>, historyRows |-> <<>>]
    ELSE
      LET one == prepareEntry(Head(data), normalizedDoneTaskHeaders)
          rest == prepareBatch(Tail(data), normalizedDoneTaskHeaders)
      IN  [doneTaskRows |-> one.rows \o rest.doneTaskRows,
           historyRows |-> one.history \o rest.historyRows]

\* ------------------------------------------------- _processSingleRequest

History == Str("History")

\* Mutant of updateRow: read-only columns are written like the others.
updateRowAnyColumn(row, headers, config, updatedData) ==
    LET normalizedUpdatedData == normalizeKeys(updatedData)
    IN  [i \in 1..Len(row) |->
            IF hasOwnProperty(normalizedUpdatedData, normalize(headers[i]))
            THEN Lookup(normalizedUpdatedData, normalize(headers[i]))[1]
            ELSE row[i]]

\* The cells of the addressed row after headers.forEach of 'update'.
updateRow(row, headers, config, updatedData) ==
    LET readOnlyColumns == [i \in 1..Len(config.readOnlyColumns) |->
                               normalize(config.readOnlyColumns[i])]
        normalizedUpdatedData == normalizeKeys(updatedData)
    IN  [i \in 1..Len(row) |->
            LET normalizedHeader == normalize(headers[i])
            IN  IF indexOf(readOnlyColumns, normalizedHeader) # -1 THEN row[i]
                ELSE IF hasOwnProperty(normalizedUpdatedData, normalizedHeader)
                THEN Lookup(normalizedUpdatedData, normalizedHeader)[1]
                ELSE row[i]]

\* What the switch on request.action does to the rows of the sheet.
applyAction(request, data, config) ==
    LET headers == data[1]
        normalizedHeaders == normalizeHeaders(headers)
        found == findRow(data, config, request.matchValue)
    IN  CASE request.action = "create" ->
               [threw |-> FALSE,
                data |-> appendRows(data, <<buildRow(normalizedHeaders,
                            IF IsPresent(request.newData) THEN request.newData[1] ELSE <<>>)>>)]
          [] request.action = "batchCreate" ->
               IF ~IsPresent(request.newDatas) THEN [threw |-> TRUE, data |-> data]
               ELSE [threw |-> FALSE,
                     data |-> appendRows(data,
                        [i \in 1..Len(request.newDatas[1]) |->
                            buildRow(normalizedHeaders,
                                IF IsPresent(request.newDatas[1][i])
                                THEN request.newDatas[1][i][1] ELSE <<>>)])]
          [] request.action = "update" ->
               IF found.threw \/ found.row = -1 THEN [threw |-> TRUE, data |-> data]
               ELSE [threw |-> FALSE,
                     data |-> [data EXCEPT ![found.row] =
                                 updateRow(@, headers, config,
                                     IF IsPresent(request.updatedData)
                                     THEN request.updatedData[1] ELSE <<>>)]]
          [] request.action = "delete" ->
               IF found.threw THEN [threw |-> TRUE, data |-> data]
               ELSE IF found.row = -1 THEN [threw |-> FALSE, data |-> data]
               ELSE [threw |-> FALSE, data |-> deleteRow(data, found.row)]
          [] OTHER -> [threw |-> TRUE, data |-> data]

\* _processSingleRequest up to the History write: whether it threw, the sheet
\* it addressed with the rows that sheet then has, and the History rows it
\* goes on to write.  present(name) tells whether getSheetByName finds it.
_processSingleRequest(request, allSheets, absent) ==
    LET sheetName == trim(request.sheetName)
        config == SHEET_CONFIG(sheetName)
        resolved == /\ sheetName # <<>>
                    /\ config.known
                    /\ sheetName \notin absent
                    /\ History \notin absent
        file == IF IsPresent(request.attachment)
                THEN uploadAttachment(request.attachment[1])
                ELSE [threw |-> FALSE, url |-> <<>>]
        withUrl == IF IsPresent(request.attachment) /\ IsPresent(request.newData)
                   THEN [request EXCEPT !.newData =
                            Some(SetKey(@[1], Str("Attachment URL"), file.url))]
                   ELSE request
        data == allSheets[sheetName]
        done == applyAction(withUrl, data, config)
        historyRecords ==
            (IF IsPresent(request.historyRecord) THEN <<request.historyRecord>> ELSE <<>>)
            \o (IF IsPresent(request.historyRecords) THEN request.historyRecords[1] ELSE <<>>)
        nullRecord == \E i \in 1..Len(historyRecords) : ~IsPresent(historyRecords[i])
        untouched == [threw |-> TRUE, sheetName |-> sheetName, wrote |-> FALSE,
                      data |-> <<>>, historyRows |-> <<>>]
    IN  IF ~resolved THEN untouched
        ELSE IF file.threw \/ getLastColumn(data) = 0 THEN untouched
        ELSE IF done.threw THEN untouched
        ELSE [threw |-> nullRecord, sheetName |-> sheetName, wrote |-> TRUE,
              data |-> done.data,
              historyRows |-> IF nullRecord THEN <<>>
                              ELSE [i \in 1..Len(historyRecords) |->
                                       historyRow(historyRecords[i][1])]]

\* ------------------------------------------------------------------- state

\* The sheets SHEET_CONFIG names, as the spreadsheets hold them at the start:
\* a header row each, and one task in 'Master Data'.
SheetNames == {Str("Task"), Str("Master Data"), DoneTaskStatus, Str("Working Task Form")}

InitialSheets ==
    [n \in SheetNames |->
        CASE n = Str("Task") -> << <<Str("Task")>> >>
          [] n = Str("Master Data") ->
               << <<Str("Task ID"), Str("Task"), Str("PC")>>,
                  <<Str("M1"), Str("sweep"), Str("pc-1")>> >>
          [] n = DoneTaskStatus ->
               << <<Str("Task ID"), Str("TASK"), Str("Attachment URL")>> >>
          [] OTHER ->
               << <<Str("c1"), Str("c2"), Str("c3"), Str("c4"), Str("c5"), Str("c6"),
                    Str("Delegate Email"), Str("Task ID")>> >>]

\* The two overlapping firings of the time-driven trigger.
Drainers == {"d1", "d2"}

NoLocals ==
    [queueSheet |-> FALSE, numRowsToProcess |-> 0, data |-> <<>>,
     doneTaskRows |-> <<>>, historyRows |-> <<>>,
     seen |-> <<>>, wroteDone |-> 0, wroteHistory |-> 0, end |-> "none"]

VARIABLES
    sheets,      \* the rows of every configured sheet
    history,     \* the rows written to 'History', oldest first
    missing,     \* the sheets getSheetByName does not find
    queueSheet,  \* whether the RequestQueue sheet exists
    queue,       \* the rows of RequestQueue: one request body each
    lock,        \* the holder of the script lock, or "free"
    pc,          \* where each firing of processQueue stands
    locals,      \* the local variables of each firing, and what it did so far
    lastPost,    \* the last doPost: its body, its class and its response
    nposts,      \* doPost calls so far
    faults,      \* storage faults so far
    appended,    \* the bodies doPost put in the queue so far, in that order
    removed,     \* the queue rows deleted so far, in the order of deletion
    cycles,      \* the firings of processQueue counted so far
    running,     \* the doPost executions between their lookup and their write
    dashboardTasks,   \* the browser: the tasks of the last snapshot it was given
    inFlightTaskIds,  \* the browser: the ids of the tasks shown as submitting
    awaiting,         \* the browser: the handlers suspended at a request
    attachmentModalTask,  \* the browser: the task the attachment modal is open for
    isRefreshing,     \* the browser: the state the refresh guard reads
    fetches,          \* the browser: the executions of fetchData under way
    checklists,       \* the browser: its local list of checklist items
    masterTasks,      \* the browser: its local list of master tasks
    delegationTasks,  \* the browser: its local list of delegated tasks
    markedAt,         \* per task id, what the task showed when it was marked
    selectedTaskIds,  \* the browser: the ids of the rows whose checkbox is ticked
    event,            \* what the browser did last
    nclicks           \* user actions and timer firings so far

vars == <<sheets, history, missing, queueSheet, queue, lock, pc, locals,
          lastPost, nposts, faults, appended, removed, cycles, running,
          dashboardTasks, inFlightTaskIds, awaiting, attachmentModalTask,
          isRefreshing, fetches, checklists, masterTasks,
          delegationTasks, markedAt, selectedTaskIds, event, nclicks>>

stores == <<sheets, history, missing, queueSheet, queue, appended, removed>>

drainer == <<lock, pc, locals>>

browser == <<dashboardTasks, inFlightTaskIds, awaiting, attachmentModalTask,
             isRefreshing, fetches, checklists, masterTasks,
             delegationTasks, markedAt, selectedTaskIds, event, nclicks>>

server == <<stores, drainer, lastPost, nposts, faults, cycles, running>>

lists == <<checklists, masterTasks, delegationTasks>>

\* ------------------------------------------------------------ request bodies

T1 == Str("T1")

T2 == Str("T2")

GoodAttachment == Some([fileName |-> "photo.png", validBase64 |-> TRUE])

BadAttachment == Some([fileName |-> "photo.png", validBase64 |-> FALSE])

CreateDone(taskId, key, attachment) ==
    Body([Request(DoneTaskStatus, "create") EXCEPT
            !.newData = Some(<< <<key, taskId>> >>),
            !.historyRecord = Some(HistoryRecord(taskId, Str("Marked Done"))),
            !.attachment = attachment])

BatchCreateDone(taskIds) ==
    Body([Request(DoneTaskStatus, "batchCreate") EXCEPT
            !.newDatas = Some([i \in 1..Len(taskIds) |->
                                Some(<< <<Str("Task ID"), taskIds[i]>> >>)]),
            !.historyRecords = Some([i \in 1..Len(taskIds) |->
                                Some(HistoryRecord(taskIds[i], Str("Marked Done")))])])

DeleteDone(taskId) ==
    Body([Request(DoneTaskStatus, "delete") EXCEPT
            !.matchValue = taskId,
            !.historyRecord = Some(HistoryRecord(taskId, Str("Marked Undone")))])

UpdateMaster(taskId) ==
    Body([Request(Str("Master Data"), "update") EXCEPT
            !.matchValue = taskId,
            !.updatedData = Some(<< <<Str("Task"), Str("mop")>>, <<Str("PC"), Str("pc-2")>> >>),
            !.historyRecord = Some(HistoryRecord(taskId, Str("Updated")))])

\* The request bodies sent in the behaviours of Spec: completion marks (one
\* whose attachment cannot be decoded), an undo, which is a delete on the
\* completion table, and a create that names the table with a trailing blank.
Bodies ==
    { CreateDone(T1, Str("Task ID"), NoAttachment),
      CreateDone(T2, <<" ", "task id">>, BadAttachment),
      BatchCreateDone(<<T1, T2>>),
      DeleteDone(Str("t1")),
      Body([Request(<<"Done Task Status", " ">>, "create") EXCEPT
              !.newData = Some(<< <<Str("Task ID"), T1>> >>)]) }

\* ------------------------------------------------------------------ doPost

\* Mutant of isQueued: every action on the completion table is queued.
isQueuedAnyAction(request) == request.sheetName = DoneTaskStatus

\* The test that sends a request to the queue.
isQueued(request) ==
    request.sheetName = DoneTaskStatus
        /\ (request.action = "create" \/ request.action = "batchCreate")

\* Mutant of appendRow: the new row goes on top.
appendRowOnTop(rows, contents) == <<contents>> \o rows

\* queueSheet.appendRow([e.postData.contents])
appendRow(rows, contents) == Append(rows, contents)

\* Mutant of Response: the catch block answers success as well.
ResponseSuccess(contents, class, status) ==
    [contents |-> contents, class |-> class, status |-> "success"]

Response(contents, class, status) ==
    [contents |-> contents, class |-> class, status |-> status]

NoPost == Response(MalformedBody, "none", "none")

\* One call of doPost with the body `contents`.
post(contents) ==
    /\ nposts' = nposts + 1
    /\ UNCHANGED <<missing, removed, drainer, faults, cycles>>
    /\ LET parsed == JSON_parse(contents)
           request == parsed.value
           sync == _processSingleRequest(request, sheets, missing)
       IN  IF parsed.threw
           THEN /\ lastPost' = Response(contents, "rejected", "error")
                /\ UNCHANGED <<sheets, history, queueSheet, queue, appended>>
           ELSE IF isQueued(request)
           THEN /\ queueSheet' = TRUE
                /\ queue' = appendRow(queue, contents)
                /\ appended' = Append(appended, contents)
                /\ lastPost' = Response(contents, "queued", "success")
                /\ UNCHANGED <<sheets, history>>
           ELSE /\ sheets' = IF sync.wrote
                             THEN [sheets EXCEPT ![sync.sheetName] = sync.data]
                             ELSE sheets
                /\ history' = IF sync.threw THEN history
                              ELSE history \o sync.historyRows
                /\ lastPost' = Response(contents, "synchronous",
                                        IF sync.threw THEN "error" ELSE "success")
                /\ UNCHANGED <<queueSheet, queue, appended>>
    /\ UNCHANGED running

\* The doPost calls of a behaviour, MaxPosts at most.
doPost(contents) ==
    /\ nposts < MaxPosts
    /\ post(contents)
    /\ UNCHANGED browser

\* ------------------------------------------------------------ processQueue

Min(a, b) == IF a < b THEN a ELSE b

\* Mutant of tryLock: the lock is obtained whoever holds it.
tryLockAlways(holder) == TRUE

\* lock.tryLock(10000): whether the lock is obtained.
tryLock(holder) == holder = "free"

\* Mutant of batchCount: the whole queue is taken.
batchCountWholeQueue(totalRowsInQueue) == totalRowsInQueue

\* numRowsToProcess = Math.min(totalRowsInQueue, BATCH_SIZE)
batchCount(totalRowsInQueue) == Min(totalRowsInQueue, BATCH_SIZE)

\* Mutant of afterUnresolved: the count is left as it is.
afterUnresolvedKeepsCount(numRowsToProcess) == numRowsToProcess

\* numRowsToProcess = 0 when 'Done Task Status' or 'History' is not found.
afterUnresolved(numRowsToProcess) == 0

\* Mutant of afterFatal: the catch block leaves the count as it is.
afterFatalKeepsCount(numRowsToProcess) == numRowsToProcess

\* numRowsToProcess = 0 in the catch block: nothing is to be deleted.
afterFatal(numRowsToProcess) == 0

\* Mutant of deleteRows: the rows are taken from the bottom of the sheet.
deleteRowsAtBottom(rows, numRowsToProcess) == SubSeq(rows, 1, Len(rows) - numRowsToProcess)

\* queueSheet.deleteRows(1, numRowsToProcess)
deleteRows(rows, numRowsToProcess) == SubSeq(rows, numRowsToProcess + 1, Len(rows))

\* The firing asks for the script lock.  With the lock it goes from opening
\* the spreadsheet to the end of data.forEach; no other holder of the lock can
\* step in between, so this is one step.  Firings that do not overlap are
\* all told as firings of "d1": the name "d2" is for a firing that starts
\* while another one is under way.
beginFiring(d) ==
    /\ pc[d] = "idle"
    /\ d = "d2" => pc["d1"] # "idle"
    /\ tryLock(lock)
    /\
         LET empty == ~queueSheet \/ Len(queue) = 0
             numRowsToProcess == batchCount(Len(queue))
             data == SubSeq(queue, 1, numRowsToProcess)
             unresolved == DoneTaskStatus \in missing \/ History \in missing
             done == sheets[DoneTaskStatus]
             prepared == prepareBatch(data, normalizeHeaders(done[1]))
         IN  /\ lock' = d
             /\ IF empty
                THEN /\ locals' = [locals EXCEPT ![d] =
                          [NoLocals EXCEPT !.queueSheet = queueSheet, !.end = "empty"]]
                     /\ pc' = [pc EXCEPT ![d] = "finally"]
                ELSE IF unresolved \/ getLastColumn(done) = 0
                THEN /\ locals' = [locals EXCEPT ![d] =
                          [NoLocals EXCEPT !.queueSheet = TRUE, !.data = data,
                                           !.seen = queue,
                                           !.numRowsToProcess =
                                               afterUnresolved(numRowsToProcess),
                                           !.end = "unresolved"]]
                     /\ pc' = [pc EXCEPT ![d] = "finally"]
                ELSE /\ locals' = [locals EXCEPT ![d] =
                          [NoLocals EXCEPT !.queueSheet = TRUE, !.data = data,
                                           !.seen = queue,
                                           !.numRowsToProcess = numRowsToProcess,
                                           !.doneTaskRows = prepared.doneTaskRows,
                                           !.historyRows = prepared.historyRows,
                                           !.end = "prepared"]]
                     /\ pc' = [pc EXCEPT ![d] = "writeDone"]
    /\ UNCHANGED <<stores, lastPost, nposts, faults, browser>>
    /\ UNCHANGED running

\* A firing that gets the lock, not counted.
readBatch(d) ==
    /\ beginFiring(d)
    /\ UNCHANGED cycles

\* A firing that is denied the lock: it logs and returns, the whole firing is
\* this one step.
denied(d) ==
    /\ pc[d] = "idle"
    /\ ~tryLock(lock)
    /\ UNCHANGED vars

\* if (doneTaskRows.length > 0) ... setValues(doneTaskRows)
writeDone(d, fault) ==
    /\ pc[d] = "writeDone"
    /\ fault => (faults < MaxFaults /\ locals[d].doneTaskRows # <<>>)
    /\ faults' = IF fault THEN faults + 1 ELSE faults
    /\ IF fault
       THEN /\ locals' = [locals EXCEPT
                  ![d].numRowsToProcess = afterFatal(@), ![d].end = "threw"]
            /\ pc' = [pc EXCEPT ![d] = "finally"]
            /\ UNCHANGED sheets
       ELSE /\ sheets' = [sheets EXCEPT ![DoneTaskStatus] =
                            appendRows(@, locals[d].doneTaskRows)]
            /\ locals' = [locals EXCEPT ![d].wroteDone = Len(locals[d].doneTaskRows)]
            /\ pc' = [pc EXCEPT ![d] = "writeHistory"]
    /\ UNCHANGED <<history, missing, queueSheet, queue, appended, removed, lock, lastPost,
                   nposts, cycles, browser>>
    /\ UNCHANGED running

\* if (historyRows.length > 0) ... setValues(historyRows)
writeHistory(d, fault) ==
    /\ pc[d] = "writeHistory"
    /\ fault => (faults < MaxFaults /\ locals[d].historyRows # <<>>)
    /\ faults' = IF fault THEN faults + 1 ELSE faults
    /\ IF fault
       THEN /\ locals' = [locals EXCEPT
                  ![d].numRowsToProcess = afterFatal(@), ![d].end = "threw"]
            /\ UNCHANGED history
       ELSE /\ history' = history \o locals[d].historyRows
            /\ locals' = [locals EXCEPT
                  ![d].wroteHistory = Len(locals[d].historyRows), ![d].end = "complete"]
    /\ pc' = [pc EXCEPT ![d] = "finally"]
    /\ UNCHANGED <<sheets, missing, queueSheet, queue, appended, removed, lock, lastPost,
                   nposts, cycles, browser>>
    /\ UNCHANGED running

\* Mutant of releaseLock: the lock stays with its holder.
releaseLockForgotten(holder) == holder

\* lock.releaseLock(): who holds the lock after it.
releaseLock(holder) == "free"

\* The finally block: the rows of the batch are deleted, unless nothing is to
\* be deleted or deleteRows throws, and the lock is released; the firing ends.
finally(d, fault) ==
    /\ pc[d] = "finally"
    /\ LET deleting == locals[d].queueSheet /\ locals[d].numRowsToProcess > 0
           left == deleteRows(queue, locals[d].numRowsToProcess)
       IN  /\ fault => (faults < MaxFaults /\ deleting)
           /\ IF deleting /\ ~fault
              THEN /\ queue' = left
                   /\ removed' = removed \o SubSeq(queue, 1, Len(queue) - Len(left))
              ELSE UNCHANGED <<queue, removed>>
    /\ faults' = IF fault THEN faults + 1 ELSE faults
    /\ lock' = releaseLock(lock)
    /\ pc' = [pc EXCEPT ![d] = "idle"]
    /\ locals' = [locals EXCEPT ![d] = NoLocals]
    /\ UNCHANGED <<sheets, history, missing, queueSheet, appended, lastPost, nposts,
                   cycles, browser>>
    /\ UNCHANGED running

processQueue(d) ==
    \/ readBatch(d)
    \/ denied(d)
    \/ \E fault \in BOOLEAN : writeDone(d, fault)
    \/ \E fault \in BOOLEAN : writeHistory(d, fault)
    \/ \E fault \in BOOLEAN : finally(d, fault)

\* ------------------------------------------------------------ specification

\* No browser takes part.
NoBrowser ==
    /\ dashboardTasks = {}
    /\ inFlightTaskIds = {}
    /\ awaiting = <<>>
    /\ attachmentModalTask = Absent
    /\ isRefreshing = FALSE
    /\ fetches = <<>>
    /\ checklists = {}
    /\ masterTasks = {}
    /\ delegationTasks = {}
    /\ markedAt = <<>>
    /\ selectedTaskIds = {}
    /\ event = "none"
    /\ nclicks = 0

Init ==
    /\ sheets = InitialSheets
    /\ history = <<>>
    /\ missing \in SUBSET {DoneTaskStatus, History}
    /\ queueSheet = FALSE
    /\ queue = <<>>
    /\ lock = "free"
    /\ pc = [d \in Drainers |-> "idle"]
    /\ locals = [d \in Drainers |-> NoLocals]
    /\ lastPost = NoPost
    /\ nposts = 0
    /\ faults = 0
    /\ appended = <<>>
    /\ removed = <<>>
    /\ cycles = 0
    /\ running = <<>>
    /\ NoBrowser

Next ==
    \/ \E contents \in Bodies : doPost(contents)
    \/ \E d \in Drainers : processQueue(d)

Spec == Init /\ [][Next]_vars

\* ------------------------------------------ draining a queue that is at rest

\* A completion mark as submitTaskAsDone sends it: the task id, the task text
\* and a field that 'Done Task Status' has no column for.
MarkDone(taskId, idKey, task, attachment) ==
    Body([Request(DoneTaskStatus, "create") EXCEPT
            !.newData = Some(<< <<idKey, taskId>>, <<Str("Task"), task>>,
                                <<Str("Planned"), Str("today")>> >>),
            !.historyRecord = Some(HistoryRecord(taskId, Str("Marked Done"))),
            !.attachment = attachment])

\* The create commands queued in the behaviours of SpecDrain: a plain one,
\* one whose id key is padded and in upper case and that has an attachment,
\* one whose task field is the number 0, and one whose attachment cannot be
\* decoded.
DrainBodies ==
    { MarkDone(T1, Str("Task ID"), Str("sweep"), NoAttachment),
      MarkDone(T2, <<" ", "TASK ID", " ">>, Str("mop"), GoodAttachment),
      MarkDone(T1, Str("Task ID"), ZERO, NoAttachment),
      MarkDone(T2, Str("Task ID"), Str("mop"), BadAttachment) }

\* doPost calls before the first firing of processQueue.
enqueue(contents) ==
    /\ cycles = 0
    /\ nposts < MaxQueued
    /\ post(contents)
    /\ UNCHANGED browser

\* A firing of processQueue once commands are queued; firings are counted.
countedFiring ==
    /\ cycles < MaxCycles
    /\ appended # <<>>
    /\ beginFiring("d1")
    /\ cycles' = cycles + 1

InitDrain ==
    /\ Init
    /\ missing = {}

\* No storage fault, one firing at a time, no doPost once firings began.
NextDrain ==
    \/ \E contents \in DrainBodies : enqueue(contents)
    \/ countedFiring
    \/ writeDone("d1", FALSE)
    \/ writeHistory("d1", FALSE)
    \/ finally("d1", FALSE)

SpecDrain == InitDrain /\ [][NextDrain]_vars

\* ------------------------------------------- commands carried out at once

MasterData == Str("Master Data")

\* The rows 'Master Data' and 'Done Task Status' may hold below their headers
\* when a command arrives: tasks created earlier, completion rows written by
\* earlier firings, one of them twice.
MasterRows ==
    { << <<Str("M1"), Str("sweep"), Str("pc-1")>> >>,
      << <<Str("M1"), Str("sweep"), Str("pc-1")>>, <<Str("M2"), Str("mop"), ZERO>> >> }

DoneRows ==
    { <<>>,
      << <<T1, Str("sweep"), <<>>>>, <<T2, Str("mop"), <<>>>> >>,
      << <<T1, Str("sweep"), <<>>>>, <<T2, Str("mop"), <<>>>>, <<T1, Str("sweep"), <<>>>> >> }

SyncSheets ==
    { [InitialSheets EXCEPT ![MasterData] = <<@[1]>> \o master,
                            ![DoneTaskStatus] = <<@[1]>> \o done] :
        master \in MasterRows, done \in DoneRows }

Delete(sheetName, matchValue) ==
    Body([Request(sheetName, "delete") EXCEPT
            !.matchValue = matchValue,
            !.historyRecord = Some(HistoryRecord(matchValue, Str("Deleted")))])

Update(sheetName, matchValue, updatedData) ==
    Body([Request(sheetName, "update") EXCEPT
            !.matchValue = matchValue,
            !.updatedData = Some(updatedData),
            !.historyRecord = Some(HistoryRecord(matchValue, Str("Updated")))])

\* The commands sent in the behaviours of SpecSync: an undo and a delete of
\* a completion row that is not there, a delete of a master task whose id is
\* sent padded, updates that name the read-only column 'PC' in upper case
\* and padded in lower case, and an update of a task that is not there.
SyncBodies ==
    { DeleteDone(Str("t1")),
      DeleteDone(Str("T9")),
      Delete(MasterData, <<" ", "M1", " ">>),
      UpdateMaster(Str("M1")),
      Update(MasterData, Str("m2"),
             << << <<" ", "pc", " ">>, Str("pc-9")>>, <<Str("TASK"), ZERO>> >>),
      UpdateMaster(Str("M9")) }

InitSync ==
    /\ sheets \in SyncSheets
    /\ history = <<>>
    /\ missing = {}
    /\ queueSheet = FALSE
    /\ queue = <<>>
    /\ lock = "free"
    /\ pc = [d \in Drainers |-> "idle"]
    /\ locals = [d \in Drainers |-> NoLocals]
    /\ lastPost = NoPost
    /\ nposts = 0
    /\ faults = 0
    /\ appended = <<>>
    /\ removed = <<>>
    /\ cycles = 0
    /\ running = <<>>
    /\ NoBrowser

NextSync == \E contents \in SyncBodies : doPost(contents)

SpecSync == InitSync /\ [][NextSync]_vars

\* ---------------------------------------- commands carried out at once: errors

\* One call of doPost whose History write throws: setValues on the History
\* sheet is the last call of _processSingleRequest, after the switch has
\* written to the table, and the catch block of doPost answers error.
postHistoryFault(contents) ==
    LET request == JSON_parse(contents).value
        sync == _processSingleRequest(request, sheets, missing)
    IN  /\ nposts < MaxPosts
        /\ faults < MaxFaults
        /\ ~JSON_parse(contents).threw
        /\ ~isQueued(request)
        /\ ~sync.threw
        /\ sync.historyRows # <<>>
        /\ nposts' = nposts + 1
        /\ faults' = faults + 1
        /\ sheets' = [sheets EXCEPT ![sync.sheetName] = sync.data]
        /\ lastPost' = Response(contents, "synchronous", "error")
        /\ UNCHANGED <<history, missing, queueSheet, queue, appended, removed>>
        /\ UNCHANGED <<drainer, cycles, running>>
        /\ UNCHANGED browser

\* Commands that end in an error, and commands that end well unless the
\* History write fails: a sheet name without configuration, no sheet name, an
\* action that is none of the four, an update of a task that is not there,
\* a delete with a history record that is null, an update, a delete and a
\* create on 'Master Data'.
ErrorBodies ==
    { Delete(Str("Nowhere"), Str("M1")),
      Delete(<<>>, Str("M1")),
      Body([Request(MasterData, "rename") EXCEPT !.matchValue = Str("M1")]),
      UpdateMaster(Str("M9")),
      Body([Request(MasterData, "delete") EXCEPT
              !.matchValue = Str("M1"),
              !.historyRecords = Some(<<Absent>>)]),
      UpdateMaster(Str("M1")),
      Delete(MasterData, Str("M1")),
      Body([Request(MasterData, "create") EXCEPT
              !.newData = Some(<< <<Str("Task ID"), Str("M3")>> >>),
              !.historyRecord = Some(HistoryRecord(Str("M3"), Str("Created")))]) }

\* The tables of InitSync; 'Master Data' or 'History' may be missing.
InitErrors ==
    /\ sheets \in SyncSheets
    /\ history = <<>>
    /\ missing \in {{}, {MasterData}, {History}}
    /\ queueSheet = FALSE
    /\ queue = <<>>
    /\ lock = "free"
    /\ pc = [d \in Drainers |-> "idle"]
    /\ locals = [d \in Drainers |-> NoLocals]
    /\ lastPost = NoPost
    /\ nposts = 0
    /\ faults = 0
    /\ appended = <<>>
    /\ removed = <<>>
    /\ cycles = 0
    /\ running = <<>>
    /\ NoBrowser

NextErrors ==
    \/ \E contents \in ErrorBodies : doPost(contents)
    \/ \E contents \in ErrorBodies : postHistoryFault(contents)

SpecErrors == InitErrors /\ [][NextErrors]_vars

\* ------------------------------------------------- the browser: marking done
\* TaskDashboardSystem.tsx.  The dashboard is given dashboardTasks by the
\* application, keeps the set inFlightTaskIds of the tasks it shows as
\* 'Submitting...', and sends a create command for every task marked done.

DashboardTask(id, taskId, systemType, actual, attachmentUrl) ==
    [id |-> id, taskId |-> taskId, systemType |-> systemType, actual |-> actual,
     attachmentUrl |-> attachmentUrl]

\* The ids of the tasks of the sheets: K1 is an ordinary task, K2 asks for a
\* document, K3 has no task id.
K1 == "checklist-task-T1"

K2 == "checklist-task-T2"

K3 == "checklist-task-"

\* What column F of a sheet of tasks can hold.
Actuals == {<<>>, <<" ">>, Str("05/11/2026")}

\* parseDashboardTaskData: the task of a row, `actual` being its column F.
TaskOf(id, actual) ==
    CASE id = K1 -> DashboardTask(K1, T1, "New_Checklist", actual, <<>>)
      [] id = K2 -> DashboardTask(K2, T2, "Delegation On Demand", actual,
                                  Str("https://drive/doc"))
      [] OTHER -> DashboardTask(K3, <<>>, "New_Checklist", actual, <<>>)

\* The lists of tasks a refresh can deliver: K1 and K2 are there or not, with
\* any value of `actual`; K3 is there and not done.
Snapshots ==
    {{TaskOf(K3, <<>>)} \cup one \cup two :
        one \in {{}} \cup {{TaskOf(K1, a)} : a \in Actuals},
        two \in {{}} \cup {{TaskOf(K2, a)} : a \in Actuals}}

\* !task.actual || task.actual.trim() === ''
notDone(task) == task.actual = <<>> \/ trim(task.actual) = <<>>

ALLOWED_SYSTEM_TYPES_FOR_SUBMIT == {"New_Checklist", "Delegation On Demand"}

\* The filter `pending` for tasks other than 'Incoming NBD' whose planned
\* date is not in the future: the tasks that are not done.
pendingTasks(tasks) ==
    {task \in tasks : task.systemType # "Incoming NBD" /\ notDone(task)}

\* Mutant of cleanInFlight: every marker goes.
cleanInFlightDropsAll(currentInFlightIds, tasks) == {}

\* Mutant of cleanInFlight: every marker stays.
cleanInFlightKeepsAll(currentInFlightIds, tasks) == currentInFlightIds

\* The updater the effect on [dashboardTasks] hands to setInFlightTaskIds:
\* the markers that stay.
cleanInFlight(currentInFlightIds, tasks) ==
    IF Cardinality(currentInFlightIds) = 0
    THEN currentInFlightIds
    ELSE LET currentDashboardTaskIds == {t.id : t \in tasks}
         IN  {id \in currentInFlightIds :
                /\ id \in currentDashboardTaskIds
                /\ LET task == CHOOSE t \in tasks : t.id = id
                   IN  notDone(task)}

\* What the list `tasks` shows of the task `id`.
Completion(tasks, id) ==
    IF \A t \in tasks : t.id # id THEN "absent"
    ELSE IF \E t \in tasks : t.id = id /\ trim(t.actual) = <<>> THEN "not done"
    ELSE "done"

\* isSubmitting: set before a request that carries a file and before the
\* request of a selection, reset in finally.
isSubmitting ==
    \E i \in 1..Len(awaiting) :
        awaiting[i].file \/ awaiting[i].handler = "handleMarkMultipleDone"

\* const postData = ... of submitTaskAsDone and submitReDoneTaskWithAttachment.
postData(task, attachment) ==
    MarkDone(task.taskId, Str("Task ID"), Str("sweep"), attachment)

\* The handler suspended at `await postToGoogleSheet(postData)`.
Suspended(handler, task, attachment) ==
    [handler |-> handler, task |-> task, file |-> attachment # NoAttachment,
     contents |-> postData(task, attachment), closure |-> <<>>]

\* What is remembered of a marker: what the list showed of the task when the
\* marker was set, and how many firings of processQueue had begun when the
\* request was accepted (-1 before that).
Marked(showed, acked) == [showed |-> showed, acked |-> acked]

\* submitTaskAsDone(task, file) and submitReDoneTaskWithAttachment(task, file)
\* up to the request: the marker is set, the request leaves.
submit(handler, task, attachment) ==
    IF task.taskId = <<>>
    THEN /\ event' = <<"no task id", task.id>>
         /\ UNCHANGED <<inFlightTaskIds, awaiting, markedAt>>
    ELSE /\ inFlightTaskIds' = inFlightTaskIds \cup {task.id}
         /\ awaiting' = Append(awaiting, Suspended(handler, task, attachment))
         /\ markedAt' = [markedAt EXCEPT ![task.id] =
                            Marked(Completion(dashboardTasks, task.id), -1)]
         /\ event' = <<"marked", task.id>>

\* The button 'Mark Done' of a row of the pending tasks: a task that asks for
\* a document opens the modal, any other is submitted.  The button is
\* disabled while a file is being submitted and for a task shown as
\* submitting.
handleMarkDoneClick(task) ==
    /\ nclicks < MaxClicks
    /\ task \in pendingTasks(dashboardTasks)
    /\ task.systemType \in ALLOWED_SYSTEM_TYPES_FOR_SUBMIT
    /\ ~isSubmitting
    /\ task.id \notin inFlightTaskIds
    /\ nclicks' = nclicks + 1
    /\ LET requiresAttachment ==
               task.attachmentUrl # <<>> /\ trim(task.attachmentUrl) # <<>>
       IN  IF requiresAttachment
           THEN /\ attachmentModalTask' = Some(task)
                /\ event' = <<"modal", task.id>>
                /\ UNCHANGED <<inFlightTaskIds, awaiting, markedAt>>
           ELSE /\ submit("submitTaskAsDone", task, NoAttachment)
                /\ UNCHANGED attachmentModalTask
    /\ UNCHANGED <<server, dashboardTasks, isRefreshing, fetches, lists>>
    /\ UNCHANGED selectedTaskIds

\* The modal's submit: a task that has a completion date already is re-done.
handleModalSubmit(file) ==
    /\ nclicks < MaxClicks
    /\ IsPresent(attachmentModalTask)
    /\ ~isSubmitting
    /\ nclicks' = nclicks + 1
    /\ LET task == attachmentModalTask[1]
       IN  IF task.actual # <<>> /\ trim(task.actual) # <<>>
           THEN submit("submitReDoneTaskWithAttachment", task, file)
           ELSE submit("submitTaskAsDone", task, file)
    /\ UNCHANGED <<server, dashboardTasks, attachmentModalTask, isRefreshing, fetches,
                   lists>>
    /\ UNCHANGED selectedTaskIds

\* The suspended handlers but the i-th.
resumed(i) == SubSeq(awaiting, 1, i - 1) \o SubSeq(awaiting, i + 1, Len(awaiting))

\* What the network does to a request: it is "up", or "down" (fetch rejects
\* and doPost is not called), or the response is "lost" (doPost is called and
\* fetch rejects).
Links == {"up", "down", "lost"}

\* postToGoogleSheet(data) for the i-th suspended handler: what the script does.
carried(i, link) ==
    IF link = "down" THEN UNCHANGED server ELSE post(awaiting[i].contents)

\* Whether postToGoogleSheet throws: the network failed, or the response
\* says status 'error'.
throws(link) == link # "up" \/ lastPost'.status = "error"

\* The rest of submitTaskAsDone and submitReDoneTaskWithAttachment: the
\* request returns; catch takes the marker away.
submitted(i, link) ==
    /\ i \in 1..Len(awaiting)
    /\ awaiting[i].handler \in {"submitTaskAsDone", "submitReDoneTaskWithAttachment"}
    /\ carried(i, link)
    /\ awaiting' = resumed(i)
    /\ LET task == awaiting[i].task
       IN  IF throws(link)
           THEN /\ inFlightTaskIds' = inFlightTaskIds \ {task.id}
                /\ event' = <<"failed", task.id>>
                /\ UNCHANGED <<attachmentModalTask, markedAt>>
           ELSE /\ attachmentModalTask' =
                      IF awaiting[i].file THEN Absent ELSE attachmentModalTask
                /\ markedAt' = [markedAt EXCEPT ![task.id].acked = cycles]
                /\ event' = <<"accepted", task.id>>
                /\ UNCHANGED inFlightTaskIds
    /\ UNCHANGED <<dashboardTasks, isRefreshing, fetches, lists, nclicks>>
    /\ UNCHANGED selectedTaskIds

\* setAllDashboardTasks(allTasks) and the effect on [dashboardTasks] that
\* follows the render.
setAllDashboardTasks(allTasks) ==
    /\ dashboardTasks' = allTasks
    /\ inFlightTaskIds' = cleanInFlight(inFlightTaskIds, allTasks)
    /\ event' = <<"refreshed", "">>

\* A refresh that delivers the list allTasks.
refreshed(allTasks) ==
    /\ setAllDashboardTasks(allTasks)
    /\ UNCHANGED <<server, awaiting, attachmentModalTask, isRefreshing, fetches,
                   lists, markedAt, nclicks>>
    /\ UNCHANGED selectedTaskIds

\* The script at rest, no sheet missing.
AtRest ==
    /\ sheets = InitialSheets
    /\ history = <<>>
    /\ missing = {}
    /\ queueSheet = FALSE
    /\ queue = <<>>
    /\ lock = "free"
    /\ pc = [d \in Drainers |-> "idle"]
    /\ locals = [d \in Drainers |-> NoLocals]
    /\ lastPost = NoPost
    /\ nposts = 0
    /\ faults = 0
    /\ appended = <<>>
    /\ removed = <<>>
    /\ cycles = 0
    /\ running = <<>>

\* The dashboard after its first load: some list of tasks, no marker.
InitFlight ==
    /\ AtRest
    /\ dashboardTasks \in Snapshots
    /\ inFlightTaskIds = {}
    /\ awaiting = <<>>
    /\ attachmentModalTask = Absent
    /\ isRefreshing = FALSE
    /\ fetches = <<>>
    /\ checklists = {}
    /\ masterTasks = {}
    /\ delegationTasks = {}
    /\ markedAt = [id \in {K1, K2, K3} |-> Marked("none", -1)]
    /\ selectedTaskIds = {}
    /\ event = <<"none", "">>
    /\ nclicks = 0

\* Tasks are marked done, requests return, refreshes deliver any list.
NextFlight ==
    \/ \E task \in dashboardTasks : handleMarkDoneClick(task)
    \/ handleModalSubmit(GoodAttachment)
    \/ \E i \in 1..Len(awaiting), link \in Links : submitted(i, link)
    \/ \E allTasks \in Snapshots : refreshed(allTasks)

SpecFlight == InitFlight /\ [][NextFlight]_vars

\* ------------------------------------------- the browser: submitting a selection
\* The table of pending tasks has a checkbox per row, one for all rows, and
\* the button 'Submit Selected', shown while something is selected.

\* const requiresAttachment = task.attachmentUrl && task.attachmentUrl.trim() !== ''
requiresAttachment(task) == task.attachmentUrl # <<>> /\ trim(task.attachmentUrl) # <<>>

\* selectableTasks: the pending tasks that ask for no document and whose
\* system allows submitting.
selectableTasks ==
    {task \in pendingTasks(dashboardTasks) :
        ~requiresAttachment(task)
            /\ task.systemType \in ALLOWED_SYSTEM_TYPES_FOR_SUBMIT}

\* The checkbox of a row.  It is shown for a task whose system allows
\* submitting; it is disabled while isSubmitting, for a task that asks for a
\* document and for a task shown as submitting.
handleToggleSelectOne(task) ==
    /\ nclicks < MaxClicks
    /\ task \in pendingTasks(dashboardTasks)
    /\ task.systemType \in ALLOWED_SYSTEM_TYPES_FOR_SUBMIT
    /\ ~(isSubmitting \/ requiresAttachment(task))
    /\ task.id \notin inFlightTaskIds
    /\ nclicks' = nclicks + 1
    /\ selectedTaskIds' = IF task.id \in selectedTaskIds
                          THEN selectedTaskIds \ {task.id}
                          ELSE selectedTaskIds \cup {task.id}
    /\ event' = <<"toggled", task.id>>
    /\ UNCHANGED <<server, dashboardTasks, inFlightTaskIds, awaiting,
                   attachmentModalTask, isRefreshing, fetches, lists, markedAt>>

\* The checkbox in the header, disabled while nothing is selectable and
\* while isSubmitting.
handleToggleSelectAll ==
    /\ nclicks < MaxClicks
    /\ selectableTasks # {}
    /\ ~isSubmitting
    /\ nclicks' = nclicks + 1
    /\ selectedTaskIds' =
          IF Cardinality(selectableTasks) > 0
                /\ Cardinality(selectedTaskIds) = Cardinality(selectableTasks)
          THEN {}
          ELSE {t.id : t \in selectableTasks}
    /\ event' = <<"toggled", "all">>
    /\ UNCHANGED <<server, dashboardTasks, inFlightTaskIds, awaiting,
                   attachmentModalTask, isRefreshing, fetches, lists, markedAt>>

\* dashboardTasks.filter(task => selectedTaskIds.has(task.id)), in the order
\* of the list: K1, K2, K3.
tasksToSubmit ==
    LET shown(id) == \E t \in dashboardTasks : t.id = id /\ id \in selectedTaskIds
        ids == SelectSeq(<<K1, K2, K3>>, shown)
    IN  [i \in 1..Len(ids) |-> CHOOSE t \in dashboardTasks : t.id = ids[i]]

\* The batchCreate command of handleMarkMultipleDone.
batchData(tasks) ==
    Body([Request(DoneTaskStatus, "batchCreate") EXCEPT
            !.newDatas = Some([i \in 1..Len(tasks) |->
                                Some(<< <<Str("Task ID"), tasks[i].taskId>>,
                                        <<Str("Task"), Str("sweep")>>,
                                        <<Str("Planned"), Str("today")>> >>)]),
            !.historyRecords = Some([i \in 1..Len(tasks) |->
                                Some(HistoryRecord(tasks[i].taskId, Str("Marked Done")))])])

\* handleMarkMultipleDone up to the request.  The button is disabled while
\* isSubmitting, and the handler sets isSubmitting.
handleMarkMultipleDone ==
    /\ nclicks < MaxClicks
    /\ Cardinality(selectedTaskIds) > 0
    /\ ~isSubmitting
    /\ nclicks' = nclicks + 1
    /\ awaiting' = Append(awaiting,
                      [handler |-> "handleMarkMultipleDone", task |-> <<>>,
                       file |-> FALSE, contents |-> batchData(tasksToSubmit),
                       closure |-> [tasksToSubmit |-> tasksToSubmit]])
    /\ event' = <<"batch", "">>
    /\ UNCHANGED <<server, dashboardTasks, inFlightTaskIds, attachmentModalTask,
                   isRefreshing, fetches, lists, markedAt, selectedTaskIds>>

\* The rest of handleMarkMultipleDone: after success the submitted tasks are
\* shown as submitting and the selection is emptied; catch only alerts.
batchSubmitted(i, link) ==
    /\ i \in 1..Len(awaiting)
    /\ awaiting[i].handler = "handleMarkMultipleDone"
    /\ carried(i, link)
    /\ awaiting' = resumed(i)
    /\ LET tasks == awaiting[i].closure.tasksToSubmit
           submittedIds == {tasks[k].id : k \in 1..Len(tasks)}
       IN  IF throws(link)
           THEN /\ event' = <<"failed", "batch">>
                /\ UNCHANGED <<inFlightTaskIds, selectedTaskIds, markedAt>>
           ELSE /\ inFlightTaskIds' = inFlightTaskIds \cup submittedIds
                /\ selectedTaskIds' = {}
                /\ markedAt' = [id \in DOMAIN markedAt |->
                                   IF id \in submittedIds
                                   THEN Marked(Completion(dashboardTasks, id), cycles)
                                   ELSE markedAt[id]]
                /\ event' = <<"accepted", "batch">>
    /\ UNCHANGED <<dashboardTasks, attachmentModalTask, isRefreshing, fetches,
                   lists, nclicks>>

\* Rows are ticked, tasks are marked done one by one and as a selection,
\* requests return, refreshes deliver any list.
NextSelect ==
    \/ \E task \in dashboardTasks : handleToggleSelectOne(task)
    \/ handleToggleSelectAll
    \/ handleMarkMultipleDone
    \/ \E task \in dashboardTasks : handleMarkDoneClick(task)
    \/ \E i \in 1..Len(awaiting), link \in {"up", "down"} : submitted(i, link)
    \/ \E i \in 1..Len(awaiting), link \in {"up", "down"} : batchSubmitted(i, link)
    \/ \E allTasks \in Snapshots : refreshed(allTasks)

SpecSelect == InitFlight /\ [][NextSelect]_vars

\* ------------------------------------------------- the browser: refreshing
\* index.tsx.  fetchData reads the sheets one after the other and hands each
\* list to its setter; isRefreshing is the state its guard reads.

\* The sheet 'DB' the dashboard reads: the tasks, each with the completion
\* date the spreadsheet shows once 'Done Task Status' holds a row of the task.
DB(allSheets) ==
    LET done(taskId) ==
            findRow(allSheets[DoneTaskStatus], SHEET_CONFIG(DoneTaskStatus), taskId).row > 0
    IN  {TaskOf(id, IF done(TaskOf(id, <<>>).taskId) THEN Str("05/11/2026") ELSE <<>>) :
            id \in {K1, K2, K3}}

Checklist(task) == [id |-> task, task |-> task]

MasterTask(taskId, taskDescription, status) ==
    [id |-> taskId, taskId |-> taskId, taskDescription |-> taskDescription,
     status |-> status]

DelegationTask(taskId, task, actualDate, status) ==
    [id |-> taskId, taskId |-> taskId, task |-> task, actualDate |-> actualDate,
     status |-> status]

\* fields[k - 1] || '' of a parsed row.
fieldOr(fields, k) == IF k <= Len(fields) THEN fields[k] ELSE <<>>

\* The rows robustCsvParser hands over: the rows under the header.
parsedData(data) == {data[j] : j \in 2..Len(data)}

\* 2. Fetch Checklists: the rows of 'Task' with a task text.
parseChecklists(data) ==
    {Checklist(fieldOr(fields, 1)) :
        fields \in {f \in parsedData(data) : trim(fieldOr(f, 1)) # <<>>}}

\* 3. Fetch Master Tasks: the rows of 'Master Data' with a description.  Of
\* the columns A to N the sheet of the model holds A (Task ID), C (Task) and
\* J (PC), so fields[0] is its first and fields[2] its second column; a
\* status (column N) is not held.
parseMasterTasks(data) ==
    {MasterTask(fieldOr(fields, 1), fieldOr(fields, 2), <<>>) :
        fields \in {f \in parsedData(data) : Len(f) >= 2 /\ trim(fieldOr(f, 2)) # <<>>}}

\* 4. Fetch Delegation Tasks: the rows of 'Working Task Form' with a task
\* text that are not cancelled.
parseDelegationTasks(data) ==
    {DelegationTask(fieldOr(fields, 8), fieldOr(fields, 3), fieldOr(fields, 9), fieldOr(fields, 10)) :
        fields \in {f \in parsedData(data) :
                      /\ trim(fieldOr(f, 3)) # <<>>
                      /\ toLowerCase(fieldOr(f, 10)) # Str("cancel")}}

\* An execution of fetchData under way: who called it, where it stands, the
\* list it read; and, of the script at the time of reading, the firings of
\* processQueue that had ended and the queue rows that had been deleted.
Fetch(by) == [by |-> by, pc |-> "fetching", allTasks |-> {}, ended |-> 0, drained |-> 0]

\* if (!isInitialLoad && isRefreshing) return;
guarded(isInitialLoad, refreshing) == ~isInitialLoad /\ refreshing

\* fetchData(false) called through a closure in which isRefreshing has the
\* value `refreshing`: it returns at once, or sets isRefreshing and starts.
fetchData(by, refreshing) ==
    IF guarded(FALSE, refreshing)
    THEN UNCHANGED <<isRefreshing, fetches>>
    ELSE /\ isRefreshing' = TRUE
         /\ fetches' = Append(fetches, Fetch(by))

\* setInterval(() => fetchData(false), 60000), set up by the effect of the
\* first render: the fetchData it calls is the one of that render, in which
\* isRefreshing is false.
timerFires ==
    /\ nclicks < MaxClicks
    /\ nclicks' = nclicks + 1
    /\ fetchData("timer", FALSE)
    /\ event' = <<"timer", "">>
    /\ UNCHANGED <<server, dashboardTasks, inFlightTaskIds, awaiting, attachmentModalTask,
                   lists, markedAt>>
    /\ UNCHANGED selectedTaskIds

\* handleManualRefresh = () => fetchData(false), of the current render; the
\* button is disabled while isRefreshing.
handleManualRefresh ==
    /\ nclicks < MaxClicks
    /\ ~isRefreshing
    /\ nclicks' = nclicks + 1
    /\ fetchData("manual", isRefreshing)
    /\ event' = <<"manual", "">>
    /\ UNCHANGED <<server, dashboardTasks, inFlightTaskIds, awaiting, attachmentModalTask,
                   lists, markedAt>>
    /\ UNCHANGED selectedTaskIds

\* The executions of fetchData but the i-th.
others(i) == SubSeq(fetches, 1, i - 1) \o SubSeq(fetches, i + 1, Len(fetches))

\* 2. to 4.: the sheets of the lists are read and handed to the setters.
readLists(i) ==
    /\ i \in 1..Len(fetches)
    /\ fetches[i].pc = "fetching"
    /\ fetches' = [fetches EXCEPT ![i].pc = "lists"]
    /\ checklists' = parseChecklists(sheets[Str("Task")])
    /\ masterTasks' = parseMasterTasks(sheets[MasterData])
    /\ delegationTasks' = parseDelegationTasks(sheets[Str("Working Task Form")])
    /\ event' = <<"lists", fetches[i].by>>
    /\ UNCHANGED <<server, dashboardTasks, inFlightTaskIds, awaiting, attachmentModalTask,
                   isRefreshing, markedAt, nclicks>>
    /\ UNCHANGED selectedTaskIds

\* 5. Fetch All Dashboard Data: the sheets are read.
readDashboard(i) ==
    /\ i \in 1..Len(fetches)
    /\ fetches[i].pc = "lists"
    /\ fetches' = [fetches EXCEPT ![i] =
                      [@ EXCEPT !.pc = "read", !.allTasks = DB(sheets),
                                !.ended = IF pc["d1"] = "idle" THEN cycles ELSE cycles - 1,
                                !.drained = Len(removed)]]
    /\ event' = <<"read", fetches[i].by>>
    /\ UNCHANGED <<server, dashboardTasks, inFlightTaskIds, awaiting, attachmentModalTask,
                   isRefreshing, lists, markedAt, nclicks>>
    /\ UNCHANGED selectedTaskIds

\* setAllDashboardTasks(allTasks), then the rest of fetchData and its finally:
\* setIsRefreshing(false).
fetched(i) ==
    /\ i \in 1..Len(fetches)
    /\ fetches[i].pc = "read"
    /\ setAllDashboardTasks(fetches[i].allTasks)
    /\ isRefreshing' = FALSE
    /\ fetches' = others(i)
    /\ UNCHANGED <<server, awaiting, attachmentModalTask, lists, markedAt, nclicks>>
    /\ UNCHANGED selectedTaskIds

\* ---------------------------------------------- from the click to the sheet

\* Completion marks of another user, queued before the browser acts.
Backlog ==
    << MarkDone(Str("T9"), Str("Task ID"), Str("mop"), NoAttachment),
       MarkDone(Str("T9"), Str("Task ID"), Str("mop"), NoAttachment) >>

\* The dashboard shows the sheets; the queue is empty or holds the backlog.
InitEndToEnd ==
    /\ sheets = InitialSheets
    /\ history = <<>>
    /\ missing = {}
    /\ queue \in {<<>>, Backlog}
    /\ queueSheet = (queue # <<>>)
    /\ appended = queue
    /\ lock = "free"
    /\ pc = [d \in Drainers |-> "idle"]
    /\ locals = [d \in Drainers |-> NoLocals]
    /\ lastPost = NoPost
    /\ nposts = 0
    /\ faults = 0
    /\ removed = <<>>
    /\ cycles = 0
    /\ running = <<>>
    /\ dashboardTasks = DB(sheets)
    /\ inFlightTaskIds = {}
    /\ awaiting = <<>>
    /\ attachmentModalTask = Absent
    /\ isRefreshing = FALSE
    /\ fetches = <<>>
    /\ checklists = parseChecklists(sheets[Str("Task")])
    /\ masterTasks = parseMasterTasks(sheets[MasterData])
    /\ delegationTasks = parseDelegationTasks(sheets[Str("Working Task Form")])
    /\ markedAt = [id \in {K1, K2, K3} |-> Marked("none", -1)]
    /\ selectedTaskIds = {}
    /\ event = <<"none", "">>
    /\ nclicks = 0

\* Tasks are marked done, the timer refreshes, processQueue fires without
\* storage faults, one firing at a time.
NextEndToEnd ==
    \/ \E task \in dashboardTasks : handleMarkDoneClick(task)
    \/ \E file \in {GoodAttachment, BadAttachment} : handleModalSubmit(file)
    \/ \E i \in 1..Len(awaiting), link \in {"up", "down"} : submitted(i, link)
    \/ timerFires
    \/ \E i \in 1..Len(fetches) : readLists(i)
    \/ \E i \in 1..Len(fetches) : readDashboard(i)
    \/ \E i \in 1..Len(fetches) : fetched(i)
    \/ countedFiring
    \/ writeDone("d1", FALSE)
    \/ writeHistory("d1", FALSE)
    \/ finally("d1", FALSE)

SpecEndToEnd == InitEndToEnd /\ [][NextEndToEnd]_vars

\* --------------------------------------------------- the browser: the lists
\* ChecklistSystem.tsx and the delegation panel.  The handlers change the
\* local list first, send a command that doPost carries out at once, and look
\* at the outcome.

\* The handler suspended at `await postToGoogleSheet(...)`: the item as it
\* was, and what the closure of the handler holds of the state.
Called(handler, item, contents) ==
    [handler |-> handler, task |-> item, file |-> FALSE, contents |-> contents,
     closure |-> [isRefreshing |-> isRefreshing, masterTasks |-> masterTasks]]

\* tasks.map(t => t.id === id ? item : t)
mapItem(tasks, id, item) == {IF t.id = id THEN item ELSE t : t \in tasks}

\* tasks.filter(t => t.id !== id)
filterItem(tasks, id) == {t \in tasks : t.id # id}

\* handleDeleteChecklist(id) up to the request.
handleDeleteChecklist(itemToDelete) ==
    /\ nclicks < MaxClicks
    /\ itemToDelete \in checklists
    /\ nclicks' = nclicks + 1
    /\ checklists' = filterItem(checklists, itemToDelete.id)
    /\ awaiting' = Append(awaiting, Called("handleDeleteChecklist", itemToDelete,
                                           Delete(Str("Task"), itemToDelete.task)))
    /\ event' = <<"clicked", itemToDelete.id>>
    /\ UNCHANGED <<server, dashboardTasks, inFlightTaskIds, attachmentModalTask,
                   isRefreshing, fetches, masterTasks, delegationTasks, markedAt>>
    /\ UNCHANGED selectedTaskIds

\* handleDeleteMasterTask(id) up to the request.
handleDeleteMasterTask(taskToDelete) ==
    /\ nclicks < MaxClicks
    /\ taskToDelete \in masterTasks
    /\ nclicks' = nclicks + 1
    /\ masterTasks' = filterItem(masterTasks, taskToDelete.id)
    /\ awaiting' = Append(awaiting, Called("handleDeleteMasterTask", taskToDelete,
                                           Delete(MasterData, taskToDelete.taskId)))
    /\ event' = <<"clicked", taskToDelete.id>>
    /\ UNCHANGED <<server, dashboardTasks, inFlightTaskIds, attachmentModalTask,
                   isRefreshing, fetches, checklists, delegationTasks, markedAt>>
    /\ UNCHANGED selectedTaskIds

\* The rest of handleDeleteChecklist and handleDeleteMasterTask: on success
\* `await fetchData(false)`, on failure the alert and `fetchData(false)`; the
\* fetchData called is the one of the render in which the handler was made.
deleted(i, link) ==
    /\ i \in 1..Len(awaiting)
    /\ awaiting[i].handler \in {"handleDeleteChecklist", "handleDeleteMasterTask"}
    /\ carried(i, link)
    /\ awaiting' = resumed(i)
    /\ fetchData("handler", awaiting[i].closure.isRefreshing)
    /\ event' = <<IF throws(link) THEN "failed" ELSE "done", awaiting[i].task.id>>
    /\ UNCHANGED <<dashboardTasks, inFlightTaskIds, attachmentModalTask, lists,
                   markedAt, nclicks>>
    /\ UNCHANGED selectedTaskIds

\* What the user typed into the row being edited.
Edited(originalTask) == [originalTask EXCEPT !.taskDescription = Str("mop")]

\* handleSaveMasterTask() up to the request: the list of the render with the
\* edited task in it.
handleSaveMasterTask(originalTask) ==
    /\ nclicks < MaxClicks
    /\ originalTask \in masterTasks
    /\ nclicks' = nclicks + 1
    /\ masterTasks' = mapItem(masterTasks, originalTask.id, Edited(originalTask))
    /\ awaiting' = Append(awaiting, Called("handleSaveMasterTask", originalTask,
                                           UpdateMaster(originalTask.taskId)))
    /\ event' = <<"clicked", originalTask.id>>
    /\ UNCHANGED <<server, dashboardTasks, inFlightTaskIds, attachmentModalTask,
                   isRefreshing, fetches, checklists, delegationTasks, markedAt>>
    /\ UNCHANGED selectedTaskIds

\* The rest of handleSaveMasterTask: catch puts back the list of the render
\* with the original task in it.
saved(i, link) ==
    /\ i \in 1..Len(awaiting)
    /\ awaiting[i].handler = "handleSaveMasterTask"
    /\ carried(i, link)
    /\ awaiting' = resumed(i)
    /\ LET originalTask == awaiting[i].task
       IN  IF throws(link)
           THEN /\ masterTasks' = mapItem(awaiting[i].closure.masterTasks,
                                          originalTask.id, originalTask)
                /\ event' = <<"failed", originalTask.id>>
           ELSE /\ event' = <<"done", originalTask.id>>
                /\ UNCHANGED masterTasks
    /\ UNCHANGED <<dashboardTasks, inFlightTaskIds, attachmentModalTask, isRefreshing,
                   fetches, checklists, delegationTasks, markedAt, nclicks>>
    /\ UNCHANGED selectedTaskIds

\* const updatedTask = { ...taskToUpdate, status: 'Undone' }
UndoneMaster(taskToUpdate) == [taskToUpdate EXCEPT !.status = Str("Undone")]

\* const updatedTask = { ...taskToUpdate, actualDate: '', status: '' }
UndoneDelegation(taskToUpdate) == [taskToUpdate EXCEPT !.actualDate = <<>>, !.status = <<>>]

\* handleUndoneMasterTask(taskToUpdate) up to the request.
handleUndoneMasterTask(taskToUpdate) ==
    /\ nclicks < MaxClicks
    /\ taskToUpdate \in masterTasks
    /\ nclicks' = nclicks + 1
    /\ masterTasks' = mapItem(masterTasks, taskToUpdate.id, UndoneMaster(taskToUpdate))
    /\ awaiting' = Append(awaiting, Called("handleUndoneMasterTask", taskToUpdate,
                                           DeleteDone(taskToUpdate.taskId)))
    /\ event' = <<"clicked", taskToUpdate.id>>
    /\ UNCHANGED <<server, dashboardTasks, inFlightTaskIds, attachmentModalTask,
                   isRefreshing, fetches, checklists, delegationTasks, markedAt>>
    /\ UNCHANGED selectedTaskIds

\* handleUndoneDelegationTask(taskToUpdate) up to the request.
handleUndoneDelegationTask(taskToUpdate) ==
    /\ nclicks < MaxClicks
    /\ taskToUpdate \in delegationTasks
    /\ taskToUpdate.taskId # <<>>
    /\ nclicks' = nclicks + 1
    /\ delegationTasks' = mapItem(delegationTasks, taskToUpdate.id,
                                  UndoneDelegation(taskToUpdate))
    /\ awaiting' = Append(awaiting, Called("handleUndoneDelegationTask", taskToUpdate,
                                           DeleteDone(taskToUpdate.taskId)))
    /\ event' = <<"clicked", taskToUpdate.id>>
    /\ UNCHANGED <<server, dashboardTasks, inFlightTaskIds, attachmentModalTask,
                   isRefreshing, fetches, checklists, masterTasks, markedAt>>
    /\ UNCHANGED selectedTaskIds

\* The rest of handleUndoneMasterTask and handleUndoneDelegationTask: catch
\* puts the task as it was back into the current list.
undone(i, link) ==
    /\ i \in 1..Len(awaiting)
    /\ awaiting[i].handler \in {"handleUndoneMasterTask", "handleUndoneDelegationTask"}
    /\ carried(i, link)
    /\ awaiting' = resumed(i)
    /\ LET taskToUpdate == awaiting[i].task
           master == awaiting[i].handler = "handleUndoneMasterTask"
       IN  IF throws(link)
           THEN /\ masterTasks' = IF master
                                  THEN mapItem(masterTasks, taskToUpdate.id, taskToUpdate)
                                  ELSE masterTasks
                /\ delegationTasks' = IF master THEN delegationTasks
                                      ELSE mapItem(delegationTasks, taskToUpdate.id,
                                                   taskToUpdate)
                /\ event' = <<"failed", taskToUpdate.id>>
           ELSE /\ event' = <<"done", taskToUpdate.id>>
                /\ UNCHANGED <<masterTasks, delegationTasks>>
    /\ UNCHANGED <<dashboardTasks, inFlightTaskIds, attachmentModalTask, isRefreshing,
                   fetches, checklists, markedAt, nclicks>>
    /\ UNCHANGED selectedTaskIds

\* The sheets when the lists are loaded: a checklist item, one or two master
\* tasks, a delegated task that is done, and its completion row.
ListSheets ==
    { [InitialSheets EXCEPT
          ![Str("Task")] = Append(@, <<Str("dust")>>),
          ![MasterData] = <<@[1]>> \o master,
          ![DoneTaskStatus] = Append(@, <<T1, Str("sweep"), <<>>>>),
          ![Str("Working Task Form")] =
              << @[1] \o <<Str("Actual"), Str("Status")>>,
                 <<Str("c1"), Str("c2"), Str("sweep"), Str("c4"), Str("c5"), Str("c6"),
                   Str("a@b"), T1, Str("05/11/2026"), Str("Done")>> >>] :
        master \in MasterRows }

\* The lists as loaded from the sheets; the master list may still hold a task
\* that another user has deleted since.
InitLists ==
    /\ sheets \in ListSheets
    /\ history = <<>>
    /\ missing = {}
    /\ queueSheet = FALSE
    /\ queue = <<>>
    /\ lock = "free"
    /\ pc = [d \in Drainers |-> "idle"]
    /\ locals = [d \in Drainers |-> NoLocals]
    /\ lastPost = NoPost
    /\ nposts = 0
    /\ faults = 0
    /\ appended = <<>>
    /\ removed = <<>>
    /\ cycles = 0
    /\ running = <<>>
    /\ dashboardTasks = DB(sheets)
    /\ inFlightTaskIds = {}
    /\ awaiting = <<>>
    /\ attachmentModalTask = Absent
    /\ isRefreshing = FALSE
    /\ fetches = <<>>
    /\ checklists = parseChecklists(sheets[Str("Task")])
    /\ masterTasks \in {parseMasterTasks(sheets[MasterData]),
                        parseMasterTasks(sheets[MasterData])
                            \cup {MasterTask(Str("M9"), Str("rake"), <<>>)}}
    /\ delegationTasks = parseDelegationTasks(sheets[Str("Working Task Form")])
    /\ markedAt = [id \in {K1, K2, K3} |-> Marked("none", -1)]
    /\ selectedTaskIds = {}
    /\ event = <<"none", "">>
    /\ nclicks = 0

\* The handlers of the lists, the timer and the refresh button; the user
\* sends one command at a time.
NextLists ==
    \/ /\ awaiting = <<>>
       /\ \/ \E item \in checklists : handleDeleteChecklist(item)
          \/ \E task \in masterTasks : handleDeleteMasterTask(task)
          \/ \E task \in masterTasks : handleSaveMasterTask(task)
          \/ \E task \in masterTasks : handleUndoneMasterTask(task)
          \/ \E task \in delegationTasks : handleUndoneDelegationTask(task)
    \/ \E i \in 1..Len(awaiting), link \in {"up", "down"} : deleted(i, link)
    \/ \E i \in 1..Len(awaiting), link \in {"up", "down"} : saved(i, link)
    \/ \E i \in 1..Len(awaiting), link \in {"up", "down"} : undone(i, link)
    \/ timerFires
    \/ handleManualRefresh
    \/ \E i \in 1..Len(fetches) : readLists(i)
    \/ \E i \in 1..Len(fetches) : readDashboard(i)
    \/ \E i \in 1..Len(fetches) : fetched(i)

SpecLists == InitLists /\ [][NextLists]_vars

\* ---------------------------------------------------------------- findRow
\* findRow as a function of the sheet and the match value: the sheets are
\* drawn from small tables and the lookups are made on them.

\* A table of one column: a header that is or is not the match column of the
\* completion table, and up to MaxRows rows below it.
Tables ==
    LET cells == {<<>>, <<" ">>, T1, <<" ", "t1">>, T2, ZERO}
        rows == UNION {[1..n -> {<<c>> : c \in cells}] : n \in 0..MaxRows}
    IN  {<<header>> \o r : header \in {<<Str("Task ID")>>, <<Str("TASK")>>}, r \in rows}

\* The sheets before a lookup; 'Master Data' (matched by its first column)
\* and 'Done Task Status' (matched by its header) hold the same table.
InitFindRow ==
    /\ \E data \in Tables :
          sheets = [InitialSheets EXCEPT ![DoneTaskStatus] = data, ![MasterData] = data]
    /\ history = <<>>
    /\ missing = {}
    /\ queueSheet = FALSE
    /\ queue = <<>>
    /\ lock = "free"
    /\ pc = [d \in Drainers |-> "idle"]
    /\ locals = [d \in Drainers |-> NoLocals]
    /\ lastPost = NoPost
    /\ nposts = 0
    /\ faults = 0
    /\ appended = <<>>
    /\ removed = <<>>
    /\ cycles = 0
    /\ running = <<>>
    /\ dashboardTasks = {}
    /\ inFlightTaskIds = {}
    /\ awaiting = <<>>
    /\ attachmentModalTask = Absent
    /\ isRefreshing = FALSE
    /\ fetches = <<>>
    /\ checklists = {}
    /\ masterTasks = {}
    /\ delegationTasks = {}
    /\ markedAt = <<>>
    /\ selectedTaskIds = {}
    /\ event = <<"none", "">>
    /\ nclicks = 0

\* var row = findRow(sheet, config, request.matchValue)
lookup(sheetName, matchValue) ==
    /\ event' = <<"findRow",
                  [sheetName |-> sheetName, matchValue |-> matchValue,
                   found |-> findRow(sheets[sheetName], SHEET_CONFIG(sheetName),
                                     matchValue)]>>
    /\ UNCHANGED <<server, dashboardTasks, inFlightTaskIds, awaiting,
                   attachmentModalTask, isRefreshing, fetches, lists, markedAt, nclicks>>
    /\ UNCHANGED selectedTaskIds

NextFindRow ==
    \E sheetName \in {DoneTaskStatus, MasterData},
       matchValue \in {<<>>, <<" ">>, T1, <<"t1", " ">>, T2, ZERO, Str("M1")} :
        lookup(sheetName, matchValue)

SpecFindRow == InitFindRow /\ [][NextFindRow]_vars

\* ------------------------------------- commands carried out at once, overlapping

\* Executions of doPost overlap: the web app serves requests at the same
\* time, and the path that carries a command out at once takes no lock.
\* Between findRow and the write that uses its row number another execution
\* can change the sheet.

\* sheet.deleteRow(row), and the setValue calls of headers.forEach at `row`,
\* with a row number obtained earlier.  A row number below the last row
\* addresses an empty row of the grid: deleting it changes no content, and
\* writing to it makes it (and the empty rows above it) part of the content.
writeAt(request, data, config, row) ==
    LET blank == [i \in 1..Len(data[1]) |-> <<>>]
        padded == IF row <= Len(data) THEN data
                  ELSE data \o [i \in 1..(row - Len(data)) |-> blank]
    IN  IF request.action = "delete"
        THEN IF row <= Len(data) THEN deleteRow(data, row) ELSE data
        ELSE [padded EXCEPT ![row] =
                 updateRow(@, data[1], config,
                     IF IsPresent(request.updatedData)
                     THEN request.updatedData[1] ELSE <<>>)]

\* An execution without the row at position i.
Leaves(execs, i) == SubSeq(execs, 1, i - 1) \o SubSeq(execs, i + 1, Len(execs))

\* doPost with an update or a delete, up to the return of findRow.  When
\* findRow throws or finds no row nothing is written to the table and the
\* call is told to its end; otherwise the execution holds the row number.
findsRow(contents) ==
    LET request == JSON_parse(contents).value
        sheetName == trim(request.sheetName)
        found == findRow(sheets[sheetName], SHEET_CONFIG(sheetName), request.matchValue)
    IN  /\ nposts < MaxPosts
        /\ ~JSON_parse(contents).threw
        /\ ~isQueued(request)
        /\ request.action \in {"update", "delete"}
        /\ SHEET_CONFIG(sheetName).known
        /\ {sheetName, History} \cap missing = {}
        /\ IF found.threw \/ found.row = -1
           THEN post(contents)
           ELSE /\ running' = Append(running, [contents |-> contents, row |-> found.row])
                /\ nposts' = nposts + 1
                /\ UNCHANGED <<stores, drainer, lastPost, faults, cycles>>
        /\ UNCHANGED browser

\* The rest of such an execution: the write at the row number it holds, the
\* History rows, the response.
writesRow(i) ==
    /\ i \in 1..Len(running)
    /\ LET request == JSON_parse(running[i].contents).value
           sheetName == trim(request.sheetName)
       IN  /\ sheets' = [sheets EXCEPT ![sheetName] =
                            writeAt(request, @, SHEET_CONFIG(sheetName), running[i].row)]
           /\ history' = history \o
                           (IF IsPresent(request.historyRecord)
                            THEN <<historyRow(request.historyRecord[1])>> ELSE <<>>)
    /\ lastPost' = Response(running[i].contents, "synchronous", "success")
    /\ running' = Leaves(running, i)
    /\ UNCHANGED <<missing, queueSheet, queue, appended, removed>>
    /\ UNCHANGED <<drainer, nposts, faults, cycles>>
    /\ UNCHANGED browser

\* The tables at the start: three completions of three tasks, or of two
\* tasks, one of them completed twice; two master tasks.
RaceSheets ==
    { [InitialSheets EXCEPT
          ![MasterData] = <<@[1]>> \o
              << <<Str("M1"), Str("sweep"), Str("pc-1")>>, <<Str("M2"), Str("mop"), ZERO>> >>,
          ![DoneTaskStatus] = <<@[1]>> \o done] :
        done \in { << <<T1, Str("sweep"), <<>>>>, <<T2, Str("mop"), <<>>>>,
                      <<Str("T9"), Str("rake"), <<>>>> >>,
                   << <<T1, Str("sweep"), <<>>>>, <<T2, Str("mop"), <<>>>>,
                      <<T1, Str("sweep"), <<>>>> >> } }

\* The commands that overlap: undos of three tasks, a delete and an update
\* of master tasks.
RaceBodies ==
    { DeleteDone(T1), DeleteDone(T2), DeleteDone(Str("T9")),
      Delete(MasterData, Str("M1")), UpdateMaster(Str("M2")) }

InitRace ==
    /\ sheets \in RaceSheets
    /\ history = <<>>
    /\ missing = {}
    /\ queueSheet = FALSE
    /\ queue = <<>>
    /\ lock = "free"
    /\ pc = [d \in Drainers |-> "idle"]
    /\ locals = [d \in Drainers |-> NoLocals]
    /\ lastPost = NoPost
    /\ nposts = 0
    /\ faults = 0
    /\ appended = <<>>
    /\ removed = <<>>
    /\ cycles = 0
    /\ running = <<>>
    /\ NoBrowser

NextRace ==
    \/ \E contents \in RaceBodies : findsRow(contents)
    \/ \E i \in 1..Len(running) : writesRow(i)

SpecRace == InitRace /\ [][NextRace]_vars

\* ------------------------------------------------------------------ claims

\* A step that is one call of doPost.
IsPost == nposts' = nposts + 1

\* A step in which firing d of processQueue ends.
Ends(d) == pc[d] = "finally" /\ pc'[d] = "idle"

AllIdle == \A d \in Drainers : pc[d] = "idle"

\* C1: doPost appends a command to the queue if and only if the command names
\* the sheet 'Done Task Status' and its action is create or batchCreate; any
\* other command, a delete on 'Done Task Status' among them, leaves the queue
\* as it is and is carried out at once by _processSingleRequest.
C1_Classification ==
    [][IsPost =>
        LET contents == lastPost'.contents
            request == contents.value
            forQueue == /\ request.sheetName = Str("Done Task Status")
                        /\ request.action \in {"create", "batchCreate"}
            executed == _processSingleRequest(request, sheets, missing)
        IN  /\ forQueue <=> queue' # queue
            /\ forQueue => /\ queue' = Append(queue, contents)
                           /\ lastPost'.class = "queued"
            /\ ~forQueue =>
                 /\ lastPost'.class = "synchronous"
                 /\ sheets' = IF executed.wrote
                              THEN [sheets EXCEPT ![executed.sheetName] = executed.data]
                              ELSE sheets
                 /\ history' = IF executed.threw THEN history
                               ELSE history \o executed.historyRows
                 /\ lastPost'.status = IF executed.threw THEN "error" ELSE "success"
      ]_vars

\* A delete on the completion table was carried out at once and took a row
\* away, while completion marks were queued.
C1_Witness ==
    /\ lastPost.contents = DeleteDone(Str("t1"))
    /\ lastPost.class = "synchronous"
    /\ lastPost.status = "success"
    /\ appended # <<>>
    /\ Len(history) >= 2
    /\ Len(sheets[DoneTaskStatus]) = 1

\* C2: a doPost that queues its command appends the body as the last row of
\* the queue and answers success; it writes nothing to any sheet or to
\* History, and no later step of processQueue changes the answer.
C2_QueuedAcceptance ==
    [][/\ (IsPost /\ lastPost'.class = "queued") =>
            /\ queue' = queue \o <<lastPost'.contents>>
            /\ lastPost'.status = "success"
            /\ sheets' = sheets
            /\ history' = history
       /\ ~IsPost => lastPost' = lastPost
      ]_vars

\* The last command was queued behind another one and answered with success,
\* and a drain cycle has since dropped it without applying it.
C2_Witness ==
    /\ lastPost.class = "queued"
    /\ lastPost.status = "success"
    /\ lastPost.contents = CreateDone(T2, <<" ", "task id">>, BadAttachment)
    /\ Len(removed) = 2
    /\ removed[2] = lastPost.contents
    /\ queue = <<>>

\* C3: the queue changes only by one row appended at its end (doPost) or by
\* the removal of a block of rows at its top (the end of a firing of
\* processQueue); the rows removed so far followed by the rows in the queue
\* are the rows appended so far, in their order, and a firing has read the
\* rows that come next in that order.
C3_FIFO ==
    [][/\ \/ queue' = queue
          \/ /\ IsPost
             /\ Len(queue') = Len(queue) + 1
             /\ SubSeq(queue', 1, Len(queue)) = queue
          \/ \E d \in Drainers, k \in 1..Len(queue) :
                /\ Ends(d)
                /\ queue' = SubSeq(queue, k + 1, Len(queue))
                /\ removed' = removed \o SubSeq(queue, 1, k)
       /\ removed' \o queue' = appended'
       /\ \A d \in Drainers :
            pc'[d] # "idle" =>
               locals'[d].data = SubSeq(appended', Len(removed') + 1,
                                        Len(removed') + Len(locals'[d].data))
      ]_vars

\* Three rows were appended; one drain cycle has removed the first two.
C3_Witness ==
    /\ Len(appended) = 3
    /\ Len(removed) = 2
    /\ Len(queue) = 1
    /\ appended[1] # appended[2]
    /\ appended[2] # appended[3]

\* C4: when a firing of processQueue ends, the rows that were in the queue
\* when it read its batch are still there, in their order at the top of the
\* queue, but for the first k of them: k is the number of rows of the batch
\* when the firing went through without a fatal error and deleteRows worked,
\* and 0 otherwise.
C4_PrefixOnlyDeletion ==
    [][\A d \in Drainers :
        Ends(d) =>
          LET seen == locals[d].seen
              attempted == Len(locals[d].data)
              k == Len(queue) - Len(queue')
          IN  /\ k \in {0, attempted}
              /\ locals[d].end # "complete" => k = 0
              /\ (locals[d].end = "complete" /\ faults' = faults) => k = attempted
              /\ Len(queue') >= Len(seen) - k
              /\ SubSeq(queue', 1, Len(seen) - k) = SubSeq(seen, k + 1, Len(seen))
      ]_vars

\* A cycle has removed its batch and left the rest of the queue, and a cycle
\* hit by a fault has left the queue whole.
C4_Witness ==
    /\ AllIdle
    /\ removed # <<>>
    /\ queue # <<>>
    /\ faults > 0

\* The completion rows one queue row can give: one for a create, one for each
\* element of newDatas for a batchCreate.
PayloadRows(contents) ==
    LET request == contents.value
    IN  IF request.action = "batchCreate"
        THEN (IF IsPresent(request.newDatas) THEN Len(request.newDatas[1]) ELSE 0)
        ELSE 1

RECURSIVE PayloadRowsOf(_)
PayloadRowsOf(data) ==
    IF data = <<>> THEN 0 ELSE PayloadRows(Head(data)) + PayloadRowsOf(Tail(data))

\* C5 as the specification states it: a firing reads at most BATCH_SIZE queue
\* rows and writes at most BATCH_SIZE rows to 'Done Task Status'.
C5_AsStated ==
    \A d \in Drainers :
        /\ Len(locals[d].data) <= BATCH_SIZE
        /\ locals[d].wroteDone <= BATCH_SIZE

\* C5: a firing of processQueue reads the first min(length, BATCH_SIZE) rows
\* of the queue and no more; the rows it writes to 'Done Task Status' are at
\* most one for each create and one for each element of each batchCreate among
\* the rows it read, a number that BATCH_SIZE does not bound.
C5_BatchBound ==
    \A d \in Drainers :
        /\ Len(locals[d].data) <= BATCH_SIZE
        /\ locals[d].numRowsToProcess <= BATCH_SIZE
        /\ locals[d].seen # <<>> =>
              locals[d].data = SubSeq(locals[d].seen, 1, Min(Len(locals[d].seen), BATCH_SIZE))
        /\ Len(locals[d].doneTaskRows) <= PayloadRowsOf(locals[d].data)
        /\ locals[d].wroteDone <= PayloadRowsOf(locals[d].data)

\* A firing found more than BATCH_SIZE rows in the queue, read BATCH_SIZE of
\* them, and wrote more than BATCH_SIZE rows to 'Done Task Status'.
C5_Witness ==
    \E d \in Drainers :
        /\ Len(locals[d].seen) > BATCH_SIZE
        /\ Len(locals[d].data) = BATCH_SIZE
        /\ locals[d].wroteDone > BATCH_SIZE

\* C6: at most one firing of processQueue is between tryLock and releaseLock,
\* and it is the holder of the lock; a firing that finds the lock held stays
\* where it is with nothing read, and while the lock is held every change to
\* the queue, to the sheets or to History that is not a doPost is a step of
\* the holder.
C6_LockMutualExclusion ==
    [][/\ Cardinality({d \in Drainers : pc'[d] # "idle"}) <= 1
       /\ \A d \in Drainers : pc'[d] # "idle" <=> lock' = d
       /\ \A d \in Drainers :
            (pc[d] = "idle" /\ lock # "free") =>
                /\ pc'[d] = "idle"
                /\ locals'[d] = NoLocals
                /\ lock' # d
       /\ (~IsPost /\ lock # "free") =>
            /\ pc'[lock] # pc[lock]
            /\ \A d \in Drainers \ {lock} : pc'[d] = pc[d] /\ locals'[d] = locals[d]
      ]_vars

\* One firing holds the lock and has written its rows to 'Done Task Status';
\* the other firing is at its tryLock, which fails.
C6_Witness ==
    \E d1, d2 \in Drainers :
        /\ d1 # d2
        /\ lock = d1
        /\ pc[d1] = "writeHistory"
        /\ locals[d1].wroteDone > 0
        /\ pc[d2] = "idle"
        /\ ~tryLock(lock)
        /\ queue # <<>>

\* C7: a firing of processQueue that has the lock gives it up in the step in
\* which it ends, whichever way it went (queue missing or empty, a sheet not
\* found, a throw while writing, a throw of deleteRows): the lock is held only
\* by a firing that has not ended, and is free when no firing is under way.
C7_LockReleased ==
    [][/\ \A d \in Drainers :
            /\ Ends(d) => lock' = "free"
            /\ pc'[d] = "idle" => lock' # d
       /\ AllIdle' => lock' = "free"
      ]_vars

\* A firing wrote its rows to both sheets, deleteRows then threw, and the
\* firing has ended: the batch is still queued and the lock is free.
C7_Witness ==
    /\ AllIdle
    /\ lock = "free"
    /\ faults > 0
    /\ queue # <<>>
    /\ removed = <<>>
    /\ history # <<>>
    /\ history[1][5] = Str("Marked Done")

\* C8: a firing of processQueue that does not find 'Done Task Status' or
\* 'History' writes no row, has nothing to delete, and in none of its steps
\* changes the queue, any sheet or History.
C8_FatalDrainError ==
    [][\A d \in Drainers :
        /\ locals'[d].end = "unresolved" =>
              /\ pc'[d] = "finally"
              /\ locals'[d].numRowsToProcess = 0
              /\ locals'[d].wroteDone = 0
              /\ locals'[d].wroteHistory = 0
              /\ locals'[d].doneTaskRows = <<>>
              /\ locals'[d].historyRows = <<>>
        /\ (pc'[d] # pc[d] /\ "unresolved" \in {locals[d].end, locals'[d].end}) =>
              /\ queue' = queue
              /\ removed' = removed
              /\ sheets' = sheets
              /\ history' = history
        /\ (pc[d] = "idle" /\ pc'[d] # "idle" /\ queue # <<>>
                /\ (DoneTaskStatus \in missing \/ History \in missing)) =>
              locals'[d].end = "unresolved"
      ]_vars

\* A firing has read two queued rows, has not found 'Done Task Status', and
\* is at its finally block.
C8_Witness ==
    \E d \in Drainers :
        /\ pc[d] = "finally"
        /\ locals[d].end = "unresolved"
        /\ DoneTaskStatus \in missing
        /\ Len(locals[d].seen) = 2
        /\ queue = locals[d].seen

\* C9: rows leave the queue only at the end of a firing that wrote all its
\* rows to both sheets, and they are the rows of its batch; a firing whose
\* write threw has set its count to 0, ends with the queue as it was and its
\* batch still on top, so no appended row is lost and the next firing reads
\* the same rows again.
C9_CommitRule ==
    [][/\ removed' # removed =>
            \E d \in Drainers :
                /\ Ends(d)
                /\ locals[d].end = "complete"
                /\ locals[d].wroteDone = Len(locals[d].doneTaskRows)
                /\ locals[d].wroteHistory = Len(locals[d].historyRows)
                /\ removed' = removed \o locals[d].data
       /\ \A d \in Drainers :
            (Ends(d) /\ locals[d].end = "threw") =>
                /\ locals[d].numRowsToProcess = 0
                /\ queue' = queue
                /\ SubSeq(queue', 1, Len(locals[d].data)) = locals[d].data
       /\ \A d \in Drainers :
            (pc[d] = "idle" /\ pc'[d] = "writeDone") =>
                locals'[d].data = SubSeq(queue, 1, Len(locals'[d].data))
       /\ Len(removed') + Len(queue') = Len(appended')
      ]_vars

\* One batchCreate of two tasks was queued; a firing wrote its two rows, the
\* write to History threw, and the next firing wrote the two rows again and
\* removed the queue row: four rows for two tasks, History written once.
C9_Witness ==
    /\ AllIdle
    /\ appended = <<BatchCreateDone(<<T1, T2>>)>>
    /\ removed = appended
    /\ faults = 1
    /\ Len(sheets[DoneTaskStatus]) = 5
    /\ Len(history) = 2

\* The queue rows that processQueue passes over: text that does not parse, a
\* request that is not a create or batchCreate on 'Done Task Status', and a
\* create whose attachment cannot be decoded.
EntryFails(contents) ==
    LET request == contents.value
    IN  \/ ~contents.wellFormed
        \/ request.sheetName # Str("Done Task Status")
        \/ request.action \notin {"create", "batchCreate"}
        \/ /\ request.action = "create"
           /\ IsPresent(request.newData)
           /\ IsPresent(request.attachment)
           /\ ~request.attachment[1].validBase64

\* The rows a batch gives when each of its queue rows is prepared on its own
\* and the rows that fail give nothing.
RECURSIVE RowsOneByOne(_, _, _)
RowsOneByOne(data, normalizedDoneTaskHeaders, field) ==
    IF data = <<>> THEN <<>>
    ELSE (IF EntryFails(Head(data)) THEN <<>>
          ELSE IF field = "rows"
          THEN prepareEntry(Head(data), normalizedDoneTaskHeaders).rows
          ELSE prepareEntry(Head(data), normalizedDoneTaskHeaders).history)
         \o RowsOneByOne(Tail(data), normalizedDoneTaskHeaders, field)

Gained == Len(sheets[DoneTaskStatus]) - 1

\* The queue rows of `data` that processQueue does not pass over.
RECURSIVE AppliedCount(_)
AppliedCount(data) ==
    IF data = <<>> THEN 0
    ELSE (IF EntryFails(Head(data)) THEN 0 ELSE 1) + AppliedCount(Tail(data))

\* C11 as the specification states it: N create commands are queued, then
\* firings run one after the other without fatal error; once ceil(N/B) of
\* them have run, 'Done Task Status' has gained exactly N rows and the queue
\* is empty, and no firing wrote more than B rows.
C11_AsStated ==
    /\ (AllIdle /\ cycles >= 1 /\ cycles * BATCH_SIZE >= Len(appended)) =>
          /\ Gained = Len(appended)
          /\ queue = <<>>
    /\ \A d \in Drainers : locals[d].wroteDone <= BATCH_SIZE

\* C11: N create commands are queued, then firings run one after the other
\* without fatal error.  After k firings the first min(N, k*B) commands have
\* left the queue, the others are still queued, and 'Done Task Status' has
\* gained one row for each command that left the queue and was prepared
\* without error; so after ceil(N/B) firings the queue is empty and the table
\* has gained N rows less the commands that failed.  No firing wrote more
\* than B rows.
C11_BoundedDrain ==
    /\ (AllIdle /\ cycles >= 1) =>
          /\ Len(removed) = Min(Len(appended), cycles * BATCH_SIZE)
          /\ removed \o queue = appended
          /\ Gained = AppliedCount(removed)
          /\ cycles * BATCH_SIZE >= Len(appended) => queue = <<>>
    /\ \A d \in Drainers : locals[d].wroteDone <= BATCH_SIZE

\* Five commands, one of them with an attachment that cannot be decoded,
\* were drained in three firings: the queue is empty, four rows were gained.
C11_Witness ==
    /\ AllIdle
    /\ cycles = 3
    /\ Len(appended) = 5
    /\ queue = <<>>
    /\ Gained = 4

\* The cell a payload gives to the column under `header` when names are
\* compared trimmed and without regard to case: the value of the last field
\* with that name, or nothing.
PayloadValue(newData, header) ==
    LET named == {i \in 1..Len(newData) : normalize(newData[i][1]) = normalize(header)}
    IN  IF named = {} THEN <<>> ELSE newData[SetMax(named)][2]

\* The one queued command has been drained by one firing.
DrainedOne == AllIdle /\ cycles = 1 /\ Len(appended) = 1

\* C12 as the specification states it: one create command is queued and one
\* firing runs; 'Done Task Status' gains exactly one row whose cells are the
\* payload values under their columns, the other cells empty, History gains
\* exactly one entry and the queue is empty.
C12_AsStated ==
    DrainedOne =>
        LET request == appended[1].value
            done == sheets[DoneTaskStatus]
        IN  /\ Len(done) = 2
            /\ \A c \in 1..Len(done[1]) :
                  normalize(done[1][c]) # Str("attachment url") =>
                      done[2][c] = PayloadValue(request.newData[1], done[1][c])
            /\ Len(history) = 1
            /\ queue = <<>>

\* C12: one create command is queued and one firing runs.  If the command
\* has a payload and its attachment, if any, is stored, 'Done Task Status'
\* gains exactly one row: under each column the payload value of that name
\* (trimmed, any letter case), empty when there is none or when the value is
\* falsy, and under 'Attachment URL' the URL of the stored attachment;
\* History gains the one entry of the command.  If the attachment cannot be
\* stored, neither sheet gains anything.  The queue is empty either way.
C12_SingleEntryDrain ==
    DrainedOne =>
        LET request == appended[1].value
            done == sheets[DoneTaskStatus]
            stored == IsPresent(request.attachment) /\ request.attachment[1].validBase64
            lost == IsPresent(request.attachment) /\ ~request.attachment[1].validBase64
        IN  /\ queue = <<>>
            /\ removed = appended
            /\ lost => (Len(done) = 1 /\ history = <<>>)
            /\ ~lost =>
                 /\ Len(done) = 2
                 /\ Len(done[2]) = Len(done[1])
                 /\ \A c \in 1..Len(done[1]) :
                      LET sent == PayloadValue(request.newData[1], done[1][c])
                      IN  done[2][c] =
                            IF normalize(done[1][c]) = Str("attachment url") /\ stored
                            THEN Str("https://drive/file")
                            ELSE IF sent = ZERO THEN <<>> ELSE sent
                 /\ history = << <<NewDate, Str("Dashboard"), request.historyRecord[1].task,
                                   Str("N/A"), Str("Marked Done")>> >>

\* The command with the padded upper-case id key and an attachment was
\* drained: its row has the id, the task and the URL, History has one entry.
C12_Witness ==
    /\ DrainedOne
    /\ appended[1] = MarkDone(T2, <<" ", "TASK ID", " ">>, Str("mop"), GoodAttachment)
    /\ sheets[DoneTaskStatus][2] = <<T2, Str("mop"), Str("https://drive/file")>>
    /\ Len(history) = 1
    /\ queue = <<>>

\* The request of the doPost call that a step is.
Posted == lastPost'.contents.value

\* The sheet a request addresses.
Target(request) == trim(request.sheetName)

\* The column a row is looked up by: the eighth of 'Working Task Form', the
\* first of the other sheets.
MatchColumn(sheetName) == IF sheetName = Str("Working Task Form") THEN 8 ELSE 1

\* The rows below the header whose match cell is not blank and is the match
\* value when both are trimmed and put in lower case.
Matching(data, col, matchValue) ==
    {i \in 2..Len(data) :
        /\ normalize(jsString(data[i][col])) # <<>>
        /\ normalize(jsString(data[i][col])) = normalize(jsString(matchValue))}

\* The rows of `data` but for row r.
Without(data, r) ==
    [i \in 1..(Len(data) - 1) |-> IF i < r THEN data[i] ELSE data[i + 1]]

\* C13: a delete carried out at once whose match value is in no row of the
\* sheet it addresses is answered with success and leaves the rows of every
\* sheet as they are.
C13_IdempotentDelete ==
    [][(/\ IsPost
        /\ Posted.action = "delete"
        /\ Matching(sheets[Target(Posted)], MatchColumn(Target(Posted)),
                    Posted.matchValue) = {}) =>
            /\ lastPost'.class = "synchronous"
            /\ lastPost'.status = "success"
            /\ sheets' = sheets
      ]_vars

\* The delete of a completion row that is not there was answered with
\* success after an undo had removed a row; the other rows are in place.
C13_Witness ==
    /\ lastPost.contents = DeleteDone(Str("T9"))
    /\ lastPost.status = "success"
    /\ nposts = 2
    /\ sheets[DoneTaskStatus] =
          <<InitialSheets[DoneTaskStatus][1], <<T1, Str("sweep"), <<>>>>,
            <<T2, Str("mop"), <<>>>> >>
    /\ Len(history) = 2

\* C14 as the specification states it: a delete carried out at once removes
\* the one matched row, appends one History entry and answers success; the
\* same delete sent again answers success and changes no state.
C14_AsStated ==
    [][(IsPost /\ Posted.action = "delete") =>
        LET t == Target(Posted)
            hits == Matching(sheets[t], MatchColumn(t), Posted.matchValue)
            again == lastPost.contents = lastPost'.contents /\ lastPost.status = "success"
        IN  /\ lastPost'.status = "success"
            /\ (hits # {} /\ ~again) =>
                  /\ sheets' = [sheets EXCEPT ![t] = Without(@, SetMax(hits))]
                  /\ Len(history') = Len(history) + 1
            /\ again => (sheets' = sheets /\ history' = history)
      ]_vars

\* C14: a delete carried out at once is answered with success and appends
\* the one History entry it carries, whether or not a row matched; when rows
\* match it removes exactly one of them, the lowest in the sheet, and when
\* none matches it leaves every sheet as it is.  The same delete sent again
\* thus removes no row once no row matches, removes the next matching row
\* otherwise, and appends its History entry once more.
C14_SyncDelete ==
    [][(IsPost /\ Posted.action = "delete") =>
        LET t == Target(Posted)
            hits == Matching(sheets[t], MatchColumn(t), Posted.matchValue)
        IN  /\ lastPost'.status = "success"
            /\ history' = history \o <<historyRow(Posted.historyRecord[1])>>
            /\ hits # {} => sheets' = [sheets EXCEPT ![t] = Without(@, SetMax(hits))]
            /\ hits = {} => sheets' = sheets
      ]_vars

\* The undo of T1 was sent twice: both were answered with success, History
\* has the entry twice, and T1 is in no completion row.
C14_Witness ==
    /\ nposts = 2
    /\ lastPost.contents = DeleteDone(Str("t1"))
    /\ lastPost.status = "success"
    /\ Len(history) = 2
    /\ history[1] = history[2]
    /\ sheets[DoneTaskStatus] =
          <<InitialSheets[DoneTaskStatus][1], <<T2, Str("mop"), <<>>>> >>

\* The columns update never writes: 'pc' of 'Master Data' and 'delegate
\* email' of 'Working Task Form', whatever the letter case of the header.
ReadOnly(sheetName, header) ==
    \/ sheetName = Str("Master Data") /\ normalize(header) = Str("pc")
    \/ sheetName = Str("Working Task Form") /\ normalize(header) = Str("delegate email")

\* Whether a payload has a field of the header's name, trimmed and without
\* regard to case.
Named(payload, header) ==
    \E i \in 1..Len(payload) : normalize(payload[i][1]) = normalize(header)

\* C15: an update that is carried out changes cells of the addressed row
\* only: a cell under a read-only column keeps its value whatever the payload
\* names, a cell under a column the payload does not name keeps its value,
\* and a cell under any other column takes the payload value.  The other rows
\* and sheets stay as they are.
C15_ReadOnly ==
    [][(IsPost /\ Posted.action = "update" /\ lastPost'.status = "success") =>
        LET t == Target(Posted)
            data == sheets[t]
            hits == Matching(data, MatchColumn(t), Posted.matchValue)
            payload == Posted.updatedData[1]
        IN  /\ hits # {}
            /\ \A n \in SheetNames \ {t} : sheets'[n] = sheets[n]
            /\ Len(sheets'[t]) = Len(data)
            /\ \A i \in 1..Len(data) :
                 /\ Len(sheets'[t][i]) = Len(data[i])
                 /\ \A c \in 1..Len(data[i]) :
                      sheets'[t][i][c] =
                         IF /\ i = SetMax(hits)
                            /\ ~ReadOnly(t, data[1][c])
                            /\ Named(payload, data[1][c])
                         THEN PayloadValue(payload, data[1][c])
                         ELSE data[i][c]
      ]_vars

\* The update that names ' pc ' and 'TASK' was carried out on task M2: the
\* task cell has the payload value, the id and the 'PC' cell are as before.
C15_Witness ==
    /\ lastPost.contents.value.action = "update"
    /\ lastPost.contents.value.matchValue = Str("m2")
    /\ lastPost.status = "success"
    /\ Len(sheets[MasterData]) = 3
    /\ sheets[MasterData][3] = <<Str("M2"), ZERO, ZERO>>

\* C16: an update whose match value is in no row of the sheet it addresses
\* is answered with status error; no sheet is changed and History gets no
\* entry.
C16_UpdateMissingRow ==
    [][(/\ IsPost
        /\ Posted.action = "update"
        /\ Matching(sheets[Target(Posted)], MatchColumn(Target(Posted)),
                    Posted.matchValue) = {}) =>
            /\ lastPost'.class = "synchronous"
            /\ lastPost'.status = "error"
            /\ sheets' = sheets
            /\ history' = history
      ]_vars

\* The update of task M9, which is not there, was answered with an error
\* after an update of M1 had been carried out.
C16_Witness ==
    /\ nposts = 2
    /\ lastPost.contents = UpdateMaster(Str("M9"))
    /\ lastPost.status = "error"
    /\ Len(history) = 1
    /\ sheets[MasterData][2] = <<Str("M1"), Str("mop"), Str("pc-1")>>

\* ------------------------------------------------------------------------
\* Whether the last step of the browser was a refresh that delivered a list.
Refreshed == event[1] = "refreshed"

\* C17 as stated: a marker of the in-flight set is removed only when a request
\* for its task fails or by a refresh whose list shows the task in another
\* completion state than when the marker was set, and a refresh that shows the
\* task in the same completion state keeps the marker.
C17_AsStated ==
    [][\A id \in inFlightTaskIds :
         /\ id \notin inFlightTaskIds' =>
              \/ event' = <<"failed", id>>
              \/ Refreshed' /\ Completion(dashboardTasks', id) # markedAt[id].showed
         /\ (Refreshed' /\ Completion(dashboardTasks', id) = markedAt[id].showed) =>
              id \in inFlightTaskIds']_vars

\* C17: a marker of the in-flight set is removed only when a request for its
\* task fails or by a refresh; a refresh removes the marker when its list
\* shows the task done or does not hold the task, and keeps it when the list
\* shows the task not done, whatever the list showed when the marker was set.
C17_MarkerRemoval ==
    [][\A id \in inFlightTaskIds :
         /\ id \notin inFlightTaskIds' => (event' = <<"failed", id>> \/ Refreshed')
         /\ Refreshed' =>
              (id \in inFlightTaskIds' <=> Completion(dashboardTasks', id) = "not done")]_vars

\* C17 witness: a refresh has just removed the marker of K1, which was set
\* while K1 was not done, and has kept the marker of K2, whose request was
\* accepted.
C17_Witness ==
    /\ Refreshed
    /\ markedAt[K1].showed = "not done"
    /\ Completion(dashboardTasks, K1) = "done"
    /\ K1 \notin inFlightTaskIds
    /\ K2 \in inFlightTaskIds
    /\ awaiting = <<>>
    /\ Len(appended) = 2

\* ------------------------------------------------------------------------
\* The task id the request for the dashboard task `id` carries.
TaskIdOf(id) == IF id = K1 THEN T1 ELSE T2

\* The places in the queue, counted from the first row ever appended, of the
\* requests the browser sent for the task `id`.
Entry(id) ==
    {p \in 1..Len(appended) :
        LET request == appended[p].value
        IN  IsPresent(request.newData) /\ request.newData[1][1][2] = TaskIdOf(id)}

\* The request sent for the task was answered with success.
Acked(id) == markedAt[id].acked >= 0

\* 'Done Task Status' holds a row of the task.
Applied(id) == Matching(sheets[DoneTaskStatus], 1, TaskIdOf(id)) # {}

\* The task is in the pending view: listed with no completion date.
Shown(id) == \E t \in dashboardTasks : t.id = id /\ trim(t.actual) = <<>>

\* The step ends the i-th execution of fetchData, its list delivered.
Delivers(i) ==
    /\ i \in 1..Len(fetches)
    /\ fetches[i].pc = "read"
    /\ fetches' = others(i)

\* C18 as stated: a task whose request was acknowledged stays in the pending
\* view, shown as submitting, as long as no row of it is in the table; and a
\* refresh that reads the sheets after the first firing of processQueue begun
\* after the acknowledgement has ended removes the marker and takes the task
\* out of the pending view.
C18_AsStated ==
    [][\A id \in {K1, K2} : Acked(id)' =>
         /\ ~Applied(id)' => (id \in inFlightTaskIds' /\ Shown(id)')
         /\ \A i \in 1..Len(fetches) :
               (Delivers(i) /\ Acked(id) /\ fetches[i].ended > markedAt[id].acked) =>
                   (id \notin inFlightTaskIds' /\ ~Shown(id)')]_vars

\* C18: a task whose request was acknowledged stays in the pending view, shown
\* as submitting, as long as no row of it is in the table; a refresh that
\* reads the sheets after the firing of processQueue that had the request in
\* its batch has deleted the queue row removes the marker and takes the task
\* out of the pending view, provided the request did not fail in that firing.
C18_EndToEnd ==
    [][\A id \in {K1, K2} : Acked(id)' =>
         /\ ~Applied(id)' => (id \in inFlightTaskIds' /\ Shown(id)')
         /\ \A i \in 1..Len(fetches), p \in Entry(id) :
               (/\ Delivers(i)
                /\ Acked(id)
                /\ fetches[i].drained >= p
                /\ ~EntryFails(appended[p])) =>
                   (id \notin inFlightTaskIds' /\ ~Shown(id)')]_vars

\* C18 witness: K1 was marked while the backlog was queued; the first firing
\* took the backlog, a refresh after it left K1 submitting; the second firing
\* applied the request and the refresh after it has just removed the marker.
C18_Witness ==
    /\ Refreshed
    /\ Acked(K1)
    /\ markedAt[K1].acked = 0
    /\ cycles = 2
    /\ Len(removed) = 3
    /\ Applied(K1)
    /\ K1 \notin inFlightTaskIds
    /\ ~Shown(K1)
    /\ nclicks = 3

\* A firing of the timer or a press of the refresh button.
Refreshes == nclicks' # nclicks /\ event'[1] \in {"timer", "manual"}

\* C19 as stated: at most one execution of fetchData is under way at any
\* time, and a firing of the timer or a manual refresh that happens while
\* another execution is still running starts none.
C19_AsStated ==
    [][ /\ Len(fetches') <= 1
        /\ (Refreshes /\ fetches # <<>>) => fetches' = fetches ]_vars

\* The list a handler works on, of the three lists `all`.
ListOf(handler, all) ==
    IF handler = "handleDeleteChecklist" THEN all[1]
    ELSE IF handler = "handleUndoneDelegationTask" THEN all[3]
    ELSE all[2]

\* The local view of the item `id` in a list: the item, or nothing.
ViewOf(tasks, id) ==
    IF \E t \in tasks : t.id = id THEN Some(CHOOSE t \in tasks : t.id = id) ELSE Absent

\* The i-th suspended handler is one of the lists and has its outcome.
Settled(i) ==
    /\ awaiting[i].handler \in {"handleDeleteChecklist", "handleDeleteMasterTask",
                                "handleSaveMasterTask", "handleUndoneMasterTask",
                                "handleUndoneDelegationTask"}
    /\ awaiting' = resumed(i)

\* C20 as stated: when the request of a list handler (update or delete of a
\* master task, delete of a checklist item, undone of a master or delegation
\* task) fails, the local view of the item is again the value it had before
\* the user's action; when it succeeds the optimistic value stays.
C20_AsStated ==
    [][ \A i \in 1..Len(awaiting) :
          Settled(i) =>
            LET item == awaiting[i].task
                h == awaiting[i].handler
            IN  IF event'[1] = "failed"
                THEN ViewOf(ListOf(h, lists'), item.id) = Some(item)
                ELSE ViewOf(ListOf(h, lists'), item.id) = ViewOf(ListOf(h, lists), item.id) ]_vars


\* C21 as stated: a delete on the completion table that is sent after the
\* create of the same Task ID was acknowledged sees that completion: once the
\* delete has returned success the table holds no row of the Task ID from the
\* earlier create, also after every later firing of processQueue.  Stated for
\* the behaviours with two calls of doPost, the create and then the delete.
C21_AsStated ==
    ( /\ nposts = 2
      /\ Len(appended) = 1
      /\ appended[1] \in {CreateDone(T1, Str("Task ID"), NoAttachment),
                          BatchCreateDone(<<T1, T2>>)}
      /\ lastPost = Response(DeleteDone(Str("t1")), "synchronous", "success") )
    => Matching(sheets[DoneTaskStatus], 1, T1) = {}

\* The last lookup: the rows looked at, the column findRow matches on (0 when
\* the sheet does not have it) and the rows that match.
Looked ==
    LET q == event[2]
        data == sheets[q.sheetName]
        col == IF q.sheetName = MasterData THEN (IF Len(data[1]) >= 1 THEN 1 ELSE 0)
               ELSE IF \E c \in 1..Len(data[1]) : normalize(data[1][c]) = Str("task id")
                    THEN CHOOSE c \in 1..Len(data[1]) :
                            /\ normalize(data[1][c]) = Str("task id")
                            /\ \A b \in 1..(c - 1) : normalize(data[1][b]) # Str("task id")
                    ELSE 0
        value(v) == toLowerCase(trim(jsString(v)))
    IN  [found |-> q.found, col |-> col, matchValue |-> value(q.matchValue),
         hits |-> IF col = 0 THEN {}
                  ELSE {r \in 2..Len(data) :
                          value(data[r][col]) # <<>> /\ value(data[r][col]) = value(q.matchValue)}]

\* C22 as stated: for every table and match value findRow gives the number of
\* the lowest row whose match cell equals the match value, both trimmed and
\* lower-cased, and -1 when there is none; never the header row, never a row
\* with an empty match cell, so never a row for an empty match value.
C22_AsStated ==
    event[1] = "findRow" =>
        LET l == Looked
        IN  /\ ~l.found.threw
            /\ l.found.row = (IF l.hits = {} THEN -1 ELSE SetMax(l.hits))
            /\ l.found.row # 1
            /\ l.matchValue = <<>> => l.found.row = -1

\* C22: when the sheet has the match column, findRow gives the number of the
\* lowest row below the header whose match cell is not empty and equals the
\* match value, both trimmed and lower-cased, and -1 when there is none, so -1
\* for an empty match value; when the sheet does not have the match column
\* findRow throws.
C22_FindRow ==
    event[1] = "findRow" =>
        LET l == Looked
        IN  IF l.col = 0 THEN l.found.threw
            ELSE /\ ~l.found.threw
                 /\ l.found.row = (IF l.hits = {} THEN -1 ELSE SetMax(l.hits))
                 /\ l.found.row # 1
                 /\ l.matchValue = <<>> => l.found.row = -1

\* A match value in two rows and a blank row below them: the lower of the two.
C22_Witness ==
    /\ event[1] = "findRow"
    /\ event[2].sheetName = DoneTaskStatus
    /\ event[2].matchValue = <<"t1", " ">>
    /\ sheets[DoneTaskStatus] = << <<Str("Task ID")>>, <<T1>>, <<<<" ", "t1">>>>, <<<<" ">>>> >>
    /\ event[2].found = [threw |-> FALSE, row |-> 3]

\* The Task IDs a queue row asks to be written, in the order of its payload.
TaskIdsOf(contents) ==
    LET request == contents.value
    IN  IF EntryFails(contents) THEN <<>>
        ELSE IF request.action = "batchCreate"
        THEN [i \in 1..Len(request.newDatas[1]) |->
                PayloadValue(request.newDatas[1][i][1], Str("Task ID"))]
        ELSE <<PayloadValue(request.newData[1], Str("Task ID"))>>

RECURSIVE TaskIdsIn(_)
TaskIdsIn(data) ==
    IF data = <<>> THEN <<>> ELSE TaskIdsOf(Head(data)) \o TaskIdsIn(Tail(data))

\* C23: the write of a firing puts its rows below the rows 'Done Task Status'
\* already has; they are the rows of the batch in the order of the queue
\* rows, those of one batchCreate next to each other in the order of its
\* payload; the batch is the next rows of the queue in the order they were
\* queued, and a firing that commits removes exactly its batch, so the rows
\* of firings that commit follow each other in the order of the queue.
C23_Order ==
    [][\A d \in Drainers :
        /\ (pc[d] = "writeDone" /\ pc'[d] = "writeHistory") =>
              LET data == locals[d].data
                  old == sheets[DoneTaskStatus]
                  new == sheets'[DoneTaskStatus]
                  ids == TaskIdsIn(data)
              IN  /\ data = SubSeq(appended, Len(removed) + 1, Len(removed) + Len(data))
                  /\ Len(new) = Len(old) + Len(ids)
                  /\ SubSeq(new, 1, Len(old)) = old
                  /\ \A k \in 1..Len(ids) : new[Len(old) + k][1] = ids[k]
        /\ (pc[d] = "finally" /\ pc'[d] = "idle" /\ removed' # removed) =>
              removed' = removed \o locals[d].data
      ]_vars

\* A create of T1 was applied by an earlier firing that committed; the batch
\* of this firing is a create of T1 and a batchCreate of T1 and T2, and its
\* three rows are written below the row of the earlier firing.
C23_Witness ==
    /\ pc["d1"] = "writeHistory"
    /\ Len(removed) = 1
    /\ locals["d1"].data = << CreateDone(T1, Str("Task ID"), NoAttachment),
                              BatchCreateDone(<<T1, T2>>) >>
    /\ Len(sheets[DoneTaskStatus]) = 5
    /\ [k \in 1..4 |-> sheets[DoneTaskStatus][k + 1][1]] = <<T1, T1, T1, T2>>

\* C24: when deleting the batch from the queue fails at the end of a firing,
\* the queue is as it was, with every row of the batch on top in its order,
\* nothing is recorded as removed, the firing ends in the ordinary way and the
\* lock is free.
C24_RemovalFailure ==
    [][\A d \in Drainers :
        (pc[d] = "finally" /\ pc'[d] = "idle" /\ faults' # faults) =>
            /\ queue' = queue
            /\ SubSeq(queue', 1, Len(locals[d].data)) = locals[d].data
            /\ removed' = removed
            /\ lock = d /\ lock' = "free"
            /\ locals'[d] = NoLocals
      ]_vars

\* A create and a batchCreate were queued; a firing wrote their three rows
\* and their History entries, the delete then failed: both are still queued.
C24_Witness ==
    /\ AllIdle
    /\ lock = "free"
    /\ faults = 1
    /\ nposts = 2
    /\ appended = << CreateDone(T1, Str("Task ID"), NoAttachment),
                     BatchCreateDone(<<T1, T2>>) >>
    /\ queue = appended
    /\ removed = <<>>
    /\ Len(sheets[DoneTaskStatus]) = 4
    /\ Len(history) = 3

\* The request of the task `id` at place p of the queue failed while its
\* batch was prepared and has left the queue with that batch.
Dropped(id, p) == p \in Entry(id) /\ Len(removed) >= p /\ EntryFails(appended[p])

C26_NoLostEnqueue ==
    [][\A d \in Drainers :
        /\ Ends(d) =>
              LET seen == locals[d].seen
                  gone == Len(removed') - Len(removed)
                  late == SubSeq(queue, Len(seen) + 1, Len(queue))
              IN  /\ gone <= Len(locals[d].data)
                  /\ removed' = removed \o SubSeq(locals[d].data, 1, gone)
                  /\ locals[d].data = SubSeq(seen, 1, Len(locals[d].data))
                  /\ queue' = SubSeq(seen, gone + 1, Len(seen)) \o late
        /\ (pc[d] = "idle" /\ pc'[d] # "idle" /\ queue # <<>>) =>
              /\ locals'[d].data = SubSeq(queue, 1, Min(Len(queue), BATCH_SIZE))
              /\ queue = SubSeq(appended, Len(removed) + 1, Len(appended))
      ]_vars

\* A firing read a queue of one row and has written what it gives; a doPost
\* has appended a second row meanwhile, and the firing is about to delete.
C26_Witness ==
    /\ pc["d1"] = "finally"
    /\ locals["d1"].end = "complete"
    /\ Len(locals["d1"].seen) = 1
    /\ locals["d1"].numRowsToProcess = 1
    /\ Len(queue) = 2
    /\ lastPost.class = "queued"

\* ------------------------------------------------------------------------

\* The execution at position i of `running` carries out its write.
Writes(i) ==
    /\ i \in 1..Len(running)
    /\ nposts' = nposts
    /\ running' = Leaves(running, i)

\* C27 as stated: under every interleaving of overlapping deletes and updates
\* carried out at once on one table, the row number findRow returned still
\* addresses, when deleteRow or setValue runs, a row whose match cell is the
\* command's match value: each command removes or overwrites only such a row.
C27_AsStated ==
    [][\A i \in 1..Len(running) :
          Writes(i) =>
             LET request == JSON_parse(running[i].contents).value
                 sheetName == Target(request)
             IN  running[i].row \in
                    Matching(sheets[sheetName], MatchColumn(sheetName),
                             request.matchValue)]_vars

\* ------------------------------------------------------------------------

\* The ids of the tasks the suspended handler at position i of `all` sent.
SentIn(all, i) ==
    IF all[i].handler = "handleMarkMultipleDone"
    THEN {all[i].closure.tasksToSubmit[k].id :
             k \in 1..Len(all[i].closure.tasksToSubmit)}
    ELSE {all[i].task.id}

\* C28 as stated: while the id of a task is in the in-flight set, or a
\* submission that contains the task awaits its response, the browser sends
\* no further create or batchCreate command that contains the task, whatever
\* the order of ticking checkboxes, Mark Done and Submit Selected.
C28_AsStated ==
    [][Len(awaiting') = Len(awaiting) + 1 =>
          \A id \in SentIn(awaiting', Len(awaiting')) :
              /\ id \notin inFlightTaskIds
              /\ \A i \in 1..Len(awaiting) : id \notin SentIn(awaiting, i)]_vars

\* ------------------------------------------------------------------------

\* C29 as stated: whenever a doPost that carries its command out at once
\* answers error (sheet name unknown or missing, table or History sheet
\* missing, invalid action, update target not found, failed History write),
\* the tables are as they were before the request.
C29_AsStated ==
    [][(/\ nposts' = nposts + 1
        /\ lastPost'.class = "synchronous"
        /\ lastPost'.status = "error") => sheets' = sheets]_vars

\* ------------------------------------------------------------------------

\* The save at position i of `awaiting` fails and its catch block runs.
SaveFails(i) ==
    /\ awaiting[i].handler = "handleSaveMasterTask"
    /\ awaiting' = resumed(i)
    /\ event' = <<"failed", awaiting[i].task.id>>

\* C30 as stated: when the update of handleSaveMasterTask fails, the rollback
\* changes the edited task only: every other task of the list is after the
\* rollback what it was before it, also when a refresh has replaced the list
\* between the optimistic update and the failure.
C30_AsStated ==
    [][\A i \in 1..Len(awaiting) :
          SaveFails(i) =>
             filterItem(masterTasks', awaiting[i].task.id)
                = filterItem(masterTasks, awaiting[i].task.id)]_vars

====
